---- MODULE Spec2Model ----
(***************************************************************************)
(* Model of the search core of sola-scriptura-search-api:                  *)
(*   - handlers.SearchHandler (SemanticSearch, HybridSearch),               *)
(*   - services.VectorSearchService (SearchVerses, SearchVersesCitations,   *)
(*     SearchTopics, GetTopicCard, tokenizeWords),                          *)
(*   - the JSON shape of the response DTOs of internal/models.              *)
(* The embedding service, the vector repository and the topic repository    *)
(* are external ports: each call is a step whose outcome (an error or a     *)
(* result list) is chosen nondeterministically.                             *)
(*                                                                          *)
(* Conventions: a string is a sequence of runes, a rune is a one-character  *)
(* string (a non-ASCII rune is named by its code point); a float score is   *)
(* an integer number of hundredths (1.0 is 100); a Go slice is a record     *)
(* [isNil, items] so that nil and empty are distinct values.                *)
(***************************************************************************)
EXTENDS Integers, Sequences, FiniteSets, TLC

(***************************** bounds **************************************)
\* longest generated query (over QueryAlphabet); the named queries are longer
MaxQueryLen == 2
\* longest generated answer of FindNeighbors; the named answers are longer
MaxVerses == 1
\* longest topic list handed to GetTopicCard in the model
MaxCardTopics == 3
MaxInitCalls == 4

(************************** runes and strings ******************************)
LowerLetters ==
    << "a", "b", "c", "d", "e", "f", "g", "h", "i", "j", "k", "l", "m",
       "n", "o", "p", "q", "r", "s", "t", "u", "v", "w", "x", "y", "z" >>

UpperLetters ==
    << "A", "B", "C", "D", "E", "F", "G", "H", "I", "J", "K", "L", "M",
       "N", "O", "P", "Q", "R", "S", "T", "U", "V", "W", "X", "Y", "Z" >>

Digits == { "0", "1", "2", "3", "4", "5", "6", "7", "8", "9" }

\* U+212A KELVIN SIGN: a non-ASCII rune whose lower case is the ASCII "k"
KelvinSign == "U+212A"

Range(s) == { s[i] : i \in DOMAIN s }

\* mutant of ToLowerRune: the query is split without being lower-cased
ToLowerRuneKeepingCase(c) == c

\* U+0130 LATIN CAPITAL LETTER I WITH DOT ABOVE: its lower case is the ASCII "i"
DottedCapitalI == "U+0130"

\* U+00C9 LATIN CAPITAL LETTER E WITH ACUTE: its lower case is U+00E9
CapitalEAcute == "U+00C9"

\* the lower case of the non-ASCII capitals among the runes of the queries
NonASCIILower ==
    [c \in { KelvinSign, DottedCapitalI, CapitalEAcute } |->
        IF c = KelvinSign THEN "k" ELSE IF c = DottedCapitalI THEN "i" ELSE "U+00E9"]

\* unicode.ToLower on one rune (strings.ToLower maps it over the string)
ToLowerRune(c) ==
    IF c \in Range(UpperLetters)
    THEN LowerLetters[CHOOSE i \in DOMAIN UpperLetters : UpperLetters[i] = c]
    ELSE IF c \in DOMAIN NonASCIILower THEN NonASCIILower[c] ELSE c

ToLower(s) == [i \in 1..Len(s) |-> ToLowerRune(s[i])]

\* mutant of IsSplitRune: only white space splits
IsSplitRuneSpaceOnly(c) == c = " "

\* the split predicate handed to strings.FieldsFunc
IsSplitRune(c) ==
    ~ (c \in Range(LowerLetters) \/ c \in Range(UpperLetters) \/ c \in Digits)

\* strings.FieldsFunc: the maximal runs of runes that are not split runes
RECURSIVE FieldsFrom(_, _, _)
FieldsFrom(s, i, cur) ==
    IF i > Len(s)
    THEN IF cur = <<>> THEN <<>> ELSE <<cur>>
    ELSE IF IsSplitRune(s[i])
         THEN (IF cur = <<>> THEN <<>> ELSE <<cur>>) \o FieldsFrom(s, i + 1, <<>>)
         ELSE FieldsFrom(s, i + 1, Append(cur, s[i]))

FieldsFunc(s) == FieldsFrom(s, 1, <<>>)

stopWords ==
    { <<"t", "h", "e">>, <<"a", "n", "d">>, <<"f", "o", "r">>,
      <<"t", "h", "a", "t">>, <<"w", "i", "t", "h">>, <<"t", "h", "i", "s">>,
      <<"a", "r", "e">>, <<"b", "u", "t">>, <<"n", "o", "t">>,
      <<"y", "o", "u">>, <<"a", "l", "l">>, <<"w", "a", "s">>,
      <<"h", "i", "s">>, <<"h", "e", "r">>, <<"f", "r", "o", "m">>,
      <<"t", "h", "e", "y">>, <<"h", "a", "v", "e">>, <<"h", "a", "d">>,
      <<"b", "e", "e", "n">>, <<"w", "e", "r", "e">>, <<"w", "i", "l", "l">>,
      <<"w", "o", "u", "l", "d">>, <<"c", "o", "u", "l", "d">>,
      <<"s", "h", "o", "u", "l", "d">>,
      <<"s", "h", "a", "l", "l">>, <<"u", "n", "t", "o">>, <<"t", "h", "e", "m">>,
      <<"w", "h", "i", "c", "h">>, <<"t", "h", "e", "r", "e">>,
      <<"t", "h", "e", "i", "r">>,
      <<"w", "h", "e", "n">>, <<"t", "h", "e", "n">>, <<"t", "h", "a", "n">>,
      <<"i", "n", "t", "o">>, <<"u", "p", "o", "n">> }

\* mutant of keepWord: the stop-word test is lost
keepWordOfAnyKind(word) == Len(word) >= 2

\* the filter loop of tokenizeWords: keep a word of at least 2 bytes that is
\* no stop word (after the split a word is ASCII, so bytes are runes)
keepWord(word) == Len(word) >= 2 /\ word \notin stopWords

tokenizeWords(query) == SelectSeq(FieldsFunc(ToLower(query)), keepWord)

(***************************** Go slices ***********************************)
NilSlice == [isNil |-> TRUE, items |-> <<>>]

Slice(items) == [isNil |-> FALSE, items |-> items]

(************************** request inputs *********************************)
QueryEmpty == <<>>
\* "the and but"
QueryStopWords == <<"t", "h", "e", " ", "a", "n", "d", " ", "b", "u", "t">>
\* "trinity"
QueryTrinity == <<"t", "r", "i", "n", "i", "t", "y">>
\* "Trinity"
QueryTrinityCap == <<"T", "r", "i", "n", "i", "t", "y">>
\* "unto thee"
QueryArchaic == <<"u", "n", "t", "o", " ", "t", "h", "e", "e">>
\* "God's love"
QueryPossessive == <<"G", "o", "d", "'", "s", " ", "l", "o", "v", "e">>
\* "!?"
QueryPunct == <<"!", "?">>
\* "THE"
QueryUpperStop == <<"T", "H", "E">>
\* a Kelvin sign followed by "j"
QueryKelvin == <<KelvinSign, "j">>

\* "love Love"
QueryRepeated == <<"l", "o", "v", "e", " ", "L", "o", "v", "e">>
\* "1 John 3:16"
QueryReference == <<"1", " ", "J", "o", "h", "n", " ", "3", ":", "1", "6">>
\* "love trinity"
QueryTwoKeywords == <<"l", "o", "v", "e", " ", "t", "r", "i", "n", "i", "t", "y">>
\* "trin"
QueryPartial == <<"t", "r", "i", "n">>
\* U+0130 "o" U+00C9 "Go": a capital that becomes the ASCII "i" and one that
\* stays outside ASCII
QueryAccents == <<DottedCapitalI, "o", CapitalEAcute, "G", "o">>
\* "Go%d_Lo": LIKE wildcards and capitals inside a word
QueryWildcards == <<"G", "o", "%", "d", "_", "L", "o">>

NamedQueries ==
    { QueryEmpty, QueryStopWords, QueryTrinity, QueryTrinityCap, QueryArchaic,
      QueryPossessive, QueryPunct, QueryUpperStop, QueryKelvin, QueryRepeated,
      QueryReference, QueryPartial, QueryTwoKeywords, QueryWildcards,
      QueryAccents }

\* the runes of the short queries (white space and punctuation are in the
\* named ones)
QueryAlphabet == { "o", "G" }

SeqsUpTo(S, n) == UNION { [1..k -> S] : k \in 0..n }

Queries == NamedQueries \cup SeqsUpTo(QueryAlphabet, MaxQueryLen)

\* requested limits: negative, zero, in range (1 and the ceiling), just above
\* the ceiling, far above
Limits == { -1, 0, 1, 50, 51, 1000 }

(*********************** the ports' result universes ***********************)
\* rows of the verse store: `verses v JOIN books b` for the pgvector backend,
\* api_views.mv_verses_search for the Vertex AI one
VerseRows ==
    { [VerseID |-> "John.3.16", Book |-> "John", Chapter |-> 3, Verse |-> 16,
       Text |-> "For God so loved the world"],
      [VerseID |-> "Gen.1.1", Book |-> "Gen", Chapter |-> 1, Verse |-> 1,
       Text |-> "In the beginning"] }

\* cosine distances to the query vector, in hundredths
Distances == { 9, 22 }

\* one models.ScoredVerse: a row of the verse store and its similarity
ScoredVerse(row, score) ==
    [VerseID |-> row.VerseID, Book |-> row.Book, Chapter |-> row.Chapter,
     Verse |-> row.Verse, Text |-> row.Text, Score |-> score]

IsInjective(s) == \A i, j \in DOMAIN s : s[i] = s[j] => i = j

Min(a, b) == IF a < b THEN a ELSE b

\* what the verses table may hold for a query vector: the rows `WHERE
\* v.embedding IS NOT NULL`, each with its distance `v.embedding <=> $1`
EmbeddedVerses ==
    { E \in SUBSET [row : VerseRows, Distance : Distances] :
        \A e, f \in E : e.row = f.row => e = f }

\* the pgvector query: `1 - (v.embedding <=> $1) as score ... ORDER BY
\* v.embedding <=> $1::vector LIMIT $2`, each row scanned into a ScoredVerse
\* and appended; rows at the same distance come in an order the query does
\* not fix
pgvectorResults(embedded, topK) ==
    LET n == Min(topK, Cardinality(embedded))
        picks == { s \in [1..n -> embedded] :
                     /\ IsInjective(s)
                     /\ \A i, j \in 1..n : i < j => s[i].Distance <= s[j].Distance
                     /\ \A e \in embedded :
                           (\A i \in 1..n : s[i] # e) =>
                               \A i \in 1..n : s[i].Distance <= e.Distance }
    IN  { [i \in 1..n |-> ScoredVerse(s[i].row, 100 - s[i].Distance)] : s \in picks }

\* the datapoints of the deployed Vertex AI index: one per verse of the
\* store, and one whose id the verse store does not know
DatapointIds == { r.VerseID : r \in VerseRows } \cup { "Tob.1.1" }

\* one MatchNeighbor of the answer of FindNeighbors: the datapoint's id and
\* its distance to the query vector
Neighbor(id, distance) == [DatapointId |-> id, Distance |-> distance]

\* the nearest first, an id the verse store does not know between two it does
NeighborsRanked ==
    << Neighbor("John.3.16", 9), Neighbor("Tob.1.1", 9), Neighbor("Gen.1.1", 22) >>
\* the farther neighbor first
NeighborsFartherFirst == << Neighbor("Gen.1.1", 22), Neighbor("John.3.16", 9) >>
\* one id twice, the nearer first
NeighborsRepeated == << Neighbor("Gen.1.1", 9), Neighbor("Gen.1.1", 22) >>

NamedNeighborLists == { NeighborsRanked, NeighborsFartherFirst, NeighborsRepeated }

\* resp.NearestNeighbors[0].Neighbors as the code takes it: the request asks
\* for `NeighborCount: int32(topK)`, and the answer is used as received,
\* whatever its length and its order, an id possibly more than once
NeighborLists ==
    NamedNeighborLists
        \cup SeqsUpTo([DatapointId : DatapointIds, Distance : Distances], MaxVerses)

\* `verseIDs[i] = verseID` of the loop over neighbors
neighborIDs(neighbors) == [i \in DOMAIN neighbors |-> neighbors[i].DatapointId]

\* `scoreMap[verseID] = float64(1 - neighbor.Distance)` of the loop over
\* neighbors: a later neighbor of the same id overwrites an earlier one
scoreMap(neighbors) ==
    [id \in { neighbors[i].DatapointId : i \in DOMAIN neighbors } |->
        LET last == CHOOSE i \in DOMAIN neighbors :
                        /\ neighbors[i].DatapointId = id
                        /\ \A j \in DOMAIN neighbors :
                              neighbors[j].DatapointId = id => j <= i
        IN  100 - neighbors[last].Distance]

\* lookupVerses: `SELECT ... WHERE verse_id IN (?)` into verseMap with
\* `v.Score = scoreMap[v.VerseID]`, then `for _, id := range verseIDs { if v,
\* ok := verseMap[id]; ok { results = append(results, v) } }`
RECURSIVE lookupVersesFrom(_, _, _)
lookupVersesFrom(verseIDs, scores, i) ==
    IF i > Len(verseIDs) THEN << >>
    ELSE LET hit == { r \in VerseRows : r.VerseID = verseIDs[i] }
         IN  (IF hit = {} THEN << >>
              ELSE << ScoredVerse(CHOOSE r \in hit : TRUE, scores[verseIDs[i]]) >>)
             \o lookupVersesFrom(verseIDs, scores, i + 1)

lookupVerses(verseIDs, scores) == lookupVersesFrom(verseIDs, scores, 1)

\* the Vertex AI SearchVersesByEmbedding after FindNeighbors answered: the
\* empty list for no neighbors, else lookupVerses of their ids and scores
vertexResults(neighbors) ==
    IF Len(neighbors) = 0 THEN << >>
    ELSE lookupVerses(neighborIDs(neighbors), scoreMap(neighbors))

\* what the Vertex AI SearchVersesByEmbedding may return, whatever topK
vertexResultLists == { vertexResults(n) : n \in NeighborLists }

\* what SearchVersesByEmbedding may return for topK, with either backend
VerseLists(topK) ==
    UNION { pgvectorResults(E, topK) : E \in EmbeddedVerses }
        \cup vertexResultLists

\* rows of api_views.mv_topics_summary: the curated topical index (a NULL
\* source reads as the empty string, a missing sub_topic is empty)
TopicIndex ==
    {
      \* topic "Trinity", sub_topic "", name "Trinity"
      [topic_id |-> "101", name |-> <<"T", "r", "i", "n", "i", "t", "y">>,
       source |-> "claude_4.5_opus", category |-> "doctrine",
       topic |-> <<"T", "r", "i", "n", "i", "t", "y">>,
       sub_topic |-> <<>>, verse_count |-> 3],
      \* topic "Trinity", sub_topic "", name "Trinity"
      [topic_id |-> "303", name |-> <<"T", "r", "i", "n", "i", "t", "y">>,
       source |-> "naves_topical_bible", category |-> "",
       topic |-> <<"T", "r", "i", "n", "i", "t", "y">>,
       sub_topic |-> <<>>, verse_count |-> 40],
      \* topic "God", sub_topic "Trinity", name "God: Trinity"
      [topic_id |-> "202", name |-> <<"G", "o", "d", ":", " ", "T", "r", "i", "n", "i", "t", "y">>,
       source |-> "torreys_topical_textbook", category |-> "",
       topic |-> <<"G", "o", "d">>,
       sub_topic |-> <<"T", "r", "i", "n", "i", "t", "y">>, verse_count |-> 12],
      \* topic "Love", sub_topic "", name "Love of God"
      [topic_id |-> "404", name |-> <<"L", "o", "v", "e", " ", "o", "f", " ", "G", "o", "d">>,
       source |-> "", category |-> "",
       topic |-> <<"L", "o", "v", "e">>,
       sub_topic |-> <<>>, verse_count |-> 5],
      \* topic "Trinity Sunday", sub_topic "", name "Trinity Sunday"
      [topic_id |-> "505", name |-> <<"T", "r", "i", "n", "i", "t", "y", " ", "S", "u", "n", "d", "a", "y">>,
       source |-> "naves_topical_bible", category |-> "",
       topic |-> <<"T", "r", "i", "n", "i", "t", "y", " ", "S", "u", "n", "d", "a", "y">>,
       sub_topic |-> <<>>, verse_count |-> 0] }

\* `s ILIKE '%w%'` and `s LIKE w || '%'` on lower-cased operands
Contains(s, w) == \E i \in 0..(Len(s) - Len(w)) : SubSeq(s, i + 1, i + Len(w)) = w

HasPrefix(s, w) == Len(w) <= Len(s) /\ SubSeq(s, 1, Len(w)) = w

\* mutant of wordScore: the WHEN arms are in the opposite order
wordScoreWeakestFirst(row, word) ==
    LET t == ToLower(row.topic)
        st == ToLower(row.sub_topic)
        n == ToLower(row.name)
        w == ToLower(word)
    IN  IF Contains(n, w) THEN 70
        ELSE IF Contains(t, w) \/ Contains(st, w) THEN 85
        ELSE IF st = w THEN 90
        ELSE IF HasPrefix(t, w) THEN 95
        ELSE IF t = w THEN 100
        ELSE 0

\* the CASE of one word: the first tier that applies, in hundredths
wordScore(row, word) ==
    LET t == ToLower(row.topic)
        st == ToLower(row.sub_topic)
        n == ToLower(row.name)
        w == ToLower(word)
    IN  IF t = w THEN 100
        ELSE IF HasPrefix(t, w) THEN 95
        ELSE IF st = w THEN 90
        ELSE IF Contains(t, w) \/ Contains(st, w) THEN 85
        ELSE IF Contains(n, w) THEN 70
        ELSE 0

MaxOf(S) == CHOOSE x \in S : \A y \in S : y <= x

\* GREATEST(<the CASE of each word>)
rowScore(row, words) == MaxOf({ wordScore(row, words[i]) : i \in DOMAIN words })

\* the WHERE clause: some word is contained in topic, sub_topic or name
rowMatches(row, words) ==
    \E i \in DOMAIN words :
        LET w == ToLower(words[i])
        IN  \/ Contains(ToLower(row.topic), w)
            \/ Contains(ToLower(row.sub_topic), w)
            \/ Contains(ToLower(row.name), w)

\* models.TopicSearchResult, as SearchByWords builds it from a scanned row
TopicSearchResult(row, score) ==
    [Topic |-> [TopicID |-> row.topic_id, Name |-> row.name,
                Source |-> row.source, Category |-> row.category],
     Score |-> score, VerseCount |-> row.verse_count, Category |-> row.category]

\* mutant of matchedTopics: the HAVING clause is lost
matchedTopicsWithoutHaving(words) ==
    { TopicSearchResult(r, rowScore(r, words)) :
        r \in { x \in TopicIndex : rowMatches(x, words) } }

\* the scored rows that pass WHERE and HAVING verse_count > 0
matchedTopics(words) ==
    { TopicSearchResult(r, rowScore(r, words)) :
        r \in { x \in TopicIndex : rowMatches(x, words) /\ x.verse_count > 0 } }

\* ORDER BY score DESC, verse_count DESC
RankedBefore(a, b) ==
    \/ a.Score > b.Score
    \/ a.Score = b.Score /\ a.VerseCount > b.VerseCount

\* what SearchByWords may return: the first topK matched topics in the ORDER
\* BY order (rows the order does not separate come in any order)
TopicLists(words, topK) ==
    IF Len(words) = 0 THEN { <<>> }
    ELSE LET Q == matchedTopics(words)
             n == Min(topK, Cardinality(Q))
         IN  { s \in [1..n -> Q] :
                 /\ IsInjective(s)
                 /\ \A i, j \in 1..n : i < j => ~ RankedBefore(s[j], s[i])
                 /\ \A e \in Q \ Range(s) : \A i \in 1..n : ~ RankedBefore(e, s[i]) }

\* the CASE of the name-only SearchByWords: it compares with $1 alone, the
\* first argument, which is the first word between two "%"
nameScore(row, words) ==
    LET n == ToLower(row.name)
        p == ToLower(<<"%">> \o words[1] \o <<"%">>)
    IN  IF n = p THEN 100
        ELSE IF Contains(n, ToLower(words[1])) THEN 90
        ELSE 70

\* its WHERE clause: some word is contained in the name
nameMatches(row, words) ==
    \E i \in DOMAIN words : Contains(ToLower(row.name), ToLower(words[i]))

\* models.TopicSearchResult, as the name-only SearchByWords builds it
TopicSearchResultByName(row, score) ==
    [Topic |-> [TopicID |-> row.topic_id, Name |-> row.name,
                Source |-> row.source, Category |-> ""],
     Score |-> score, VerseCount |-> row.verse_count, Category |-> ""]

\* its scored rows: WHERE, then HAVING COUNT(tv.verse_id) > 0
matchedTopicsByName(words) ==
    { TopicSearchResultByName(r, nameScore(r, words)) :
        r \in { x \in TopicIndex : nameMatches(x, words) /\ x.verse_count > 0 } }

\* what the name-only SearchByWords may return: the first topK of its scored
\* rows by ORDER BY mt.score DESC, COUNT(tv.verse_id) DESC
TopicListsByName(words, topK) ==
    IF Len(words) = 0 THEN { <<>> }
    ELSE LET Q == matchedTopicsByName(words)
             n == Min(topK, Cardinality(Q))
         IN  { s \in [1..n -> Q] :
                 /\ IsInjective(s)
                 /\ \A i, j \in 1..n : i < j => ~ RankedBefore(s[j], s[i])
                 /\ \A e \in Q \ Range(s) : \A i \in 1..n : ~ RankedBefore(e, s[i]) }

\* models.TopicSearchResult, as the name-only SearchByWords over
\* mv_topics_summary builds it: the literal sets Topic.TopicID, Topic.Name,
\* Topic.Source and Score; VerseCount and Category keep their zero values
TopicSearchResultOfSummaryName(r) == [r EXCEPT !.VerseCount = 0]

\* what the name-only SearchByWords over mv_topics_summary may return: the
\* same CASE on $1, WHERE name ILIKE, HAVING verse_count > 0 and ORDER BY
\* score DESC, verse_count DESC as the one over topics, the rows built
\* without their verse_count
TopicListsOfSummaryName(words, topK) ==
    { [i \in DOMAIN s |-> TopicSearchResultOfSummaryName(s[i])] :
        s \in TopicListsByName(words, topK) }

\* the implementations of repository.TopicRepository in package postgres,
\* named by the relation they query and what they match on
TopicRepositories == { "mv_topics_summary", "topics", "mv_topics_summary.name" }

\* match scores (hundredths) of the topics handed to GetTopicCard
MatchScores == { 70, 90, 100 }

\* one models.ScoredTopic of SearchTopics' loop
toScoredTopic(r) ==
    [TopicID |-> r.Topic.TopicID,
     Name |-> r.Topic.Name,
     Source |-> r.Topic.Source,
     Category |-> r.Category,
     VerseCount |-> r.VerseCount,
     Score |-> r.Score]

\* the topic lists GetTopicCard is called with: any order, any sources, any
\* scores
CardTopics ==
    { toScoredTopic(TopicSearchResult(r, sc)) :
        r \in { x \in TopicIndex : x.verse_count > 0 }, sc \in MatchScores }

CardTopicLists == SeqsUpTo(CardTopics, MaxCardTopics)

\* minScore of GetTopicCard: the match scores lie below it, at it and above
MinScores == { 90 }

CardVerseLimits == { 1, 5 }

\* rows of api.topic_verses joined with api.verses and api.books: the verses
\* mapped to each topic, with the importance tier of the mapping and the
\* canonical order of the book. Topic "404" has none (mv_topics_summary is
\* materialized, so its verse_count can be ahead of the mapping).
TopicVerseRows ==
    { [topic_id |-> "101", importance_tier |-> 1, book_order |-> 40,
       verse_id |-> "Matt.28.19", text |-> "Go ye therefore", book |-> "Matt",
       chapter |-> 28, verse |-> 19],
      [topic_id |-> "101", importance_tier |-> 1, book_order |-> 47,
       verse_id |-> "2Cor.13.14", text |-> "The grace of the Lord", book |-> "2Cor",
       chapter |-> 13, verse |-> 14],
      [topic_id |-> "101", importance_tier |-> 2, book_order |-> 1,
       verse_id |-> "Gen.1.26", text |-> "Let us make man", book |-> "Gen",
       chapter |-> 1, verse |-> 26],
      [topic_id |-> "202", importance_tier |-> 1, book_order |-> 43,
       verse_id |-> "John.1.14", text |-> "And the Word was made flesh", book |-> "John",
       chapter |-> 1, verse |-> 14],
      [topic_id |-> "202", importance_tier |-> 1, book_order |-> 43,
       verse_id |-> "John.1.1", text |-> "In the beginning was the Word", book |-> "John",
       chapter |-> 1, verse |-> 1],
      [topic_id |-> "303", importance_tier |-> 3, book_order |-> 62,
       verse_id |-> "1John.5.7", text |-> "For there are three", book |-> "1John",
       chapter |-> 5, verse |-> 7] }

\* an unscored models.Citation, as GetTopicVerses scans it: the query selects
\* no relevance_score
TopicVerse(row) ==
    [VerseID |-> row.verse_id, Text |-> row.text, Book |-> row.book,
     Chapter |-> row.chapter, Verse |-> row.verse,
     RelevanceScore |-> [isNil |-> TRUE, value |-> 0]]

\* mutant of verseBefore: the importance tier is left out of the order
verseBeforeCanonicalOnly(a, b) ==
    \/ a.book_order < b.book_order
    \/ a.book_order = b.book_order /\ a.chapter < b.chapter
    \/ a.book_order = b.book_order /\ a.chapter = b.chapter /\ a.verse < b.verse

\* ORDER BY tv.importance_tier, b.book_order, v.chapter, v.verse
verseBefore(a, b) ==
    \/ a.importance_tier < b.importance_tier
    \/ a.importance_tier = b.importance_tier /\ a.book_order < b.book_order
    \/ /\ a.importance_tier = b.importance_tier
       /\ a.book_order = b.book_order
       /\ a.chapter < b.chapter
    \/ /\ a.importance_tier = b.importance_tier
       /\ a.book_order = b.book_order
       /\ a.chapter = b.chapter
       /\ a.verse < b.verse

\* what GetTopicVerses may return for topicID and LIMIT n: the first n rows of
\* the topic in the ORDER BY order, as citations
TopicVerseLists(topicID, n) ==
    LET R == { r \in TopicVerseRows : r.topic_id = topicID }
        len == Min(IF n < 0 THEN 0 ELSE n, Cardinality(R))
    IN  { [k \in 1..len |-> TopicVerse(s[k])] :
            s \in { t \in [1..len -> R] :
                      /\ IsInjective(t)
                      /\ \A i, j \in 1..len : i < j => ~ verseBefore(t[j], t[i])
                      /\ \A e \in R \ Range(t) : \A i \in 1..len : ~ verseBefore(e, t[i]) } }

(************************** models: JSON shape *****************************)
\* a slice field without omitempty: always present, null when the slice is nil
JsonList(s) == [present |-> TRUE, isNull |-> s.isNil, items |-> s.items]

\* a slice field tagged omitempty: left out when the slice has no element
JsonListOmitEmpty(s) ==
    IF Len(s.items) = 0
    THEN [present |-> FALSE, isNull |-> FALSE, items |-> <<>>]
    ELSE JsonList(s)

\* a pointer field tagged omitempty: left out when the pointer is nil
JsonPtrOmitEmpty(p) ==
    IF p.isNil THEN [present |-> FALSE, value |-> p] ELSE [present |-> TRUE, value |-> p]

\* models.SemanticSearchResponse
JsonSemanticSearchResponse(v) ==
    [query |-> v.Query, results |-> JsonList(v.Results)]

\* models.ResourceMatches
JsonResourceMatches(v) == [topics |-> JsonListOmitEmpty(v.Topics)]

\* models.SemanticMatches
JsonSemanticMatches(v) == [verses |-> JsonList(v.Verses)]

\* models.HybridSearchResponse
JsonHybridSearchResponse(v) ==
    [query |-> v.Query,
     topic_card |-> JsonPtrOmitEmpty(v.TopicCard),
     resource_matches |-> JsonResourceMatches(v.ResourceMatches),
     semantic_matches |-> JsonSemanticMatches(v.SemanticMatches)]

\* a nil *models.TopicCard
NilTopicCard ==
    [isNil |-> TRUE, TopicID |-> "", Name |-> <<>>, Category |-> "", Source |-> "",
     VerseCount |-> 0, Score |-> 0, TopVerses |-> NilSlice]

(******************************* state *************************************)
VARIABLES
    pc,          \* where the running operation stands: "idle", a port call in
                 \* flight ("embed", "vector", "keyword", "topicVerses"), "done"
    op,          \* the running operation: "none", "semantic", "hybrid", "card"
    req,         \* the bound request (models.*SearchRequest)
    verseLimit,  \* the handler's resolved verse limit
    topicLimit,  \* the handler's resolved topic limit
    citations,   \* the handler's citations (a Go slice)
    topics,      \* the handler's topics (a Go slice)
    calls,       \* the port calls made for this operation, in order
    warnings,    \* what the handler logged with Warnf
    resp,        \* what the handler answered
    cardArgs,    \* the arguments of the running GetTopicCard call
    selected,    \* GetTopicCard's selectedTopic: an index into topics, 0 for nil
    cardRet,     \* what GetTopicCard returned
    ctx,         \* the caller's context: whether it is done (canceled or timed
                 \* out) and how many port calls had been made when it ended
    other,       \* the locals of a second request, served by another goroutine
                 \* that is not running now
    topicRepo,   \* VectorSearchService.topicRepo: the TopicRepository the
                 \* service was constructed with
    vs,          \* one SearchVersesByEmbedding call of a vector repository:
                 \* the backend, what its store or index holds, what it returned
    pg           \* package db: pgDB, pgOnce, postgresEnabled, and the
                 \* InitPostgres calls made so far

vars ==
    << pc, op, req, verseLimit, topicLimit, citations, topics, calls, warnings,
       resp, cardArgs, selected, cardRet, ctx, other, topicRepo, vs, pg >>

handlerVars == << req, verseLimit, topicLimit, citations, topics, warnings, resp >>

cardVars == << cardArgs, selected, cardRet >>

NoRequest == [wellFormed |-> FALSE, Query |-> <<>>, Limit |-> 0, VerseLimit |-> 0, TopicLimit |-> 0]

NoResponse == [status |-> 0]

NoCardArgs == [topics |-> <<>>, minScore |-> 0, verseLimit |-> 0]

NoCardRet == [returned |-> FALSE, card |-> NilTopicCard, err |-> FALSE]

\* `ctx := c.Request().Context()`: a context that is not done
LiveContext == [done |-> FALSE, callsAtDone |-> 0]

\* no SearchVersesByEmbedding call is followed on its own
NoVectorSearch ==
    [backend |-> "none", topK |-> 0, neighbors |-> <<>>, embedded |-> {},
     wait |-> "none", returned |-> FALSE, err |-> FALSE, results |-> NilSlice]

\* package db before InitPostgres: `var pgDB *sqlx.DB; var pgOnce sync.Once;
\* var postgresEnabled bool`
NoPostgres ==
    [uri |-> "", once |-> FALSE, pgDB |-> "nil", postgresEnabled |-> FALSE,
     attempts |-> 0, closed |-> FALSE, wait |-> "none", ctxDone |-> FALSE,
     inits |-> <<>>]

\* cfg.PostgresURI: unset or set
PostgresURIs == { "", "postgres://bible" }

\* package db of a server that serves requests: main has called InitPostgres
\* once, and it returned nil (main ends the process otherwise)
PostgresReady ==
    [uri |-> "postgres://bible", once |-> TRUE, pgDB |-> "open",
     postgresEnabled |-> TRUE, attempts |-> 1, closed |-> FALSE,
     wait |-> "none", ctxDone |-> FALSE,
     inits |-> << [ctxDone |-> FALSE, err |-> "nil", enabled |-> TRUE] >>]

\* the locals of a goroutine that serves no request yet
NoFrame ==
    [pc |-> "idle", op |-> "none", req |-> NoRequest, verseLimit |-> 0,
     topicLimit |-> 0, citations |-> NilSlice, topics |-> NilSlice, calls |-> <<>>,
     warnings |-> <<>>, resp |-> NoResponse, cardArgs |-> NoCardArgs, selected |-> 0,
     cardRet |-> NoCardRet, ctx |-> LiveContext]

InitServer ==
    /\ pc = "idle"
    /\ op = "none"
    /\ req = NoRequest
    /\ verseLimit = 0
    /\ topicLimit = 0
    /\ citations = NilSlice
    /\ topics = NilSlice
    /\ calls = <<>>
    /\ warnings = <<>>
    /\ resp = NoResponse
    /\ cardArgs = NoCardArgs
    /\ selected = 0
    /\ cardRet = NoCardRet
    /\ ctx = LiveContext
    /\ other = NoFrame
    /\ topicRepo \in TopicRepositories

Init ==
    /\ InitServer
    /\ vs = NoVectorSearch
    /\ pg = PostgresReady

(***************************** port calls **********************************)
\* a call record: the port, its arguments, and what the port answered
\* ("pending" while the call is in flight)
PortCall(port, topK, words, topicID) ==
    [port |-> port, topK |-> topK, words |-> words, topicID |-> topicID,
     result |-> "pending", returned |-> <<>>]

\* embeddingsSvc.EmbedQuery(ctx, query)
EmbedCall == PortCall("embed", 0, <<>>, "")

\* vectorRepo.SearchVersesByEmbedding(ctx, embedding, topK)
VectorCall(topK) == PortCall("vector", topK, <<>>, "")

\* topicRepo.SearchByWords(ctx, words, topK)
KeywordCall(words, topK) == PortCall("keyword", topK, words, "")

\* topicRepo.GetTopicVerses(ctx, topicID, limit)
TopicVersesCall(topicID, limit) == PortCall("topicVerses", limit, <<>>, topicID)

\* the outcomes of a port call: an error, or a result list
PortError == [ok |-> FALSE, items |-> <<>>]

PortResult(items) == [ok |-> TRUE, items |-> items]

\* the call in flight (the last one made) has returned `out`
answered(cs, out) ==
    [cs EXCEPT ![Len(cs)] =
        [@ EXCEPT !.result = IF out.ok THEN "ok" ELSE "error", !.returned = out.items]]

(******************************* handlers **********************************)
DefaultVerseLimit == 10

DefaultTopicLimit == 5

MaxLimit == 50

\* mutant of clampLimit: only the ceiling is checked
clampLimitCeilingOnly(limit, default) ==
    IF limit > MaxLimit THEN default ELSE limit

\* `if limit <= 0 || limit > 50 { limit = <default> }`
clampLimit(limit, default) ==
    IF limit <= 0 \/ limit > MaxLimit THEN default ELSE limit

\* mutant of queryMissing: the check is lost
queryMissingNeverChecked(r) == FALSE

\* `if req.Query == ""`: a missing query binds to the empty string
queryMissing(r) == r.Query = <<>>

\* `return echo.NewHTTPError(status, message)`: the request ends with an
\* error answer and no response DTO
HTTPError(status, message) ==
    /\ resp' = [status |-> status, message |-> message]
    /\ pc' = "done"

\* the JSON bodies a client can send to POST /search
SemanticRequests ==
    { NoRequest } \cup
    { [wellFormed |-> TRUE, Query |-> q, Limit |-> l, VerseLimit |-> 0, TopicLimit |-> 0] :
        q \in Queries, l \in Limits }

\* the JSON bodies a client can send to POST /search/hybrid
HybridRequests ==
    { NoRequest } \cup
    { [wellFormed |-> TRUE, Query |-> q, Limit |-> 0, VerseLimit |-> vl, TopicLimit |-> tl] :
        q \in Queries, vl \in Limits, tl \in Limits }

\* SearchHandler.SemanticSearch up to the first port call: bind, validate,
\* resolve the limit, enter SearchVersesCitations -> SearchVerses -> EmbedQuery
SemanticSearch(r) ==
    /\ pc = "idle"
    /\ op' = "semantic"
    /\ req' = r
    /\ IF ~ r.wellFormed
       THEN /\ HTTPError(400, "Invalid request body")
            /\ UNCHANGED << verseLimit, calls >>
       ELSE IF queryMissing(r)
       THEN /\ HTTPError(400, "Query is required")
            /\ UNCHANGED << verseLimit, calls >>
       ELSE /\ verseLimit' = clampLimit(r.Limit, DefaultVerseLimit)
            /\ calls' = Append(calls, EmbedCall)
            /\ pc' = "embed"
            /\ UNCHANGED resp
    /\ UNCHANGED << topicLimit, citations, topics, warnings, cardVars, ctx, other, topicRepo, vs, pg >>

\* SearchHandler.HybridSearch up to the first port call
HybridSearch(r) ==
    /\ pc = "idle"
    /\ op' = "hybrid"
    /\ req' = r
    /\ IF ~ r.wellFormed
       THEN /\ HTTPError(400, "Invalid request body")
            /\ UNCHANGED << verseLimit, topicLimit, calls >>
       ELSE IF queryMissing(r)
       THEN /\ HTTPError(400, "Query is required")
            /\ UNCHANGED << verseLimit, topicLimit, calls >>
       ELSE /\ verseLimit' = clampLimit(r.VerseLimit, DefaultVerseLimit)
            /\ topicLimit' = clampLimit(r.TopicLimit, DefaultTopicLimit)
            /\ calls' = Append(calls, EmbedCall)
            /\ pc' = "embed"
            /\ UNCHANGED resp
    /\ UNCHANGED << citations, topics, warnings, cardVars, ctx, other, topicRepo, vs, pg >>

\* mutant of toCitations: every citation points at one score variable shared
\* by the iterations, which ends holding the last verse's score
toCitationsSharingScore(scoredVerses) ==
    [i \in 1..Len(scoredVerses) |->
        [VerseID |-> scoredVerses[i].VerseID,
         Text |-> scoredVerses[i].Text,
         Book |-> scoredVerses[i].Book,
         Chapter |-> scoredVerses[i].Chapter,
         Verse |-> scoredVerses[i].Verse,
         RelevanceScore |->
            [isNil |-> FALSE, value |-> scoredVerses[Len(scoredVerses)].Score]]]

\* the loop of SearchVersesCitations: one Citation per ScoredVerse, in order,
\* each pointing at its own copy of the score
toCitations(scoredVerses) ==
    [i \in 1..Len(scoredVerses) |->
        [VerseID |-> scoredVerses[i].VerseID,
         Text |-> scoredVerses[i].Text,
         Book |-> scoredVerses[i].Book,
         Chapter |-> scoredVerses[i].Chapter,
         Verse |-> scoredVerses[i].Verse,
         RelevanceScore |-> [isNil |-> FALSE, value |-> scoredVerses[i].Score]]]

\* the loop of SearchTopics: one ScoredTopic per TopicSearchResult, in order
toScoredTopics(results) == [i \in 1..Len(results) |-> toScoredTopic(results[i])]

\* `c.JSON(http.StatusOK, models.SemanticSearchResponse{...})`
semanticResponse(query, cits) ==
    LET v == [Query |-> query, Results |-> cits]
    IN  [status |-> 200, value |-> v, json |-> JsonSemanticSearchResponse(v)]

\* `c.JSON(http.StatusOK, models.HybridSearchResponse{...})`: the literal
\* sets Query, ResourceMatches and SemanticMatches; TopicCard stays nil
hybridResponse(query, tops, cits) ==
    LET v == [Query |-> query,
              TopicCard |-> NilTopicCard,
              ResourceMatches |-> [Topics |-> tops],
              SemanticMatches |-> [Verses |-> cits]]
    IN  [status |-> 200, value |-> v, json |-> JsonHybridSearchResponse(v)]

\* mutant of searchFailed: the error is swallowed and the handler answers
\* 200 with empty lists
searchFailedAnswersEmpty ==
    /\ resp' = IF op = "semantic"
               THEN semanticResponse(req.Query, Slice(<<>>))
               ELSE hybridResponse(req.Query, Slice(<<>>), Slice(<<>>))
    /\ pc' = "done"

\* `if err != nil { return echo.NewHTTPError(500, "Search failed: "+...) }`
\* after SearchVersesCitations, in either handler
searchFailed == HTTPError(500, "Search failed")

\* EmbedQuery returns inside SearchVerses: an error goes up unchanged through
\* SearchVersesCitations to the handler, a vector goes to the vector search
EmbedQueryReturn(out) ==
    /\ pc = "embed"
    /\ IF out.ok
       THEN /\ calls' = Append(answered(calls, out), VectorCall(verseLimit))
            /\ pc' = "vector"
            /\ UNCHANGED resp
       ELSE /\ searchFailed
            /\ calls' = answered(calls, out)
    /\ UNCHANGED << op, req, verseLimit, topicLimit, citations, topics, warnings, cardVars, ctx, other, topicRepo, vs, pg >>

\* mutant of noKeywords: SearchTopics always returns early
noKeywordsAlways(words) == TRUE

\* `if len(words) == 0 { return []models.ScoredTopic{}, nil }` in SearchTopics
noKeywords(words) == Len(words) = 0

\* mutant of SearchVersesByEmbeddingReturn: HybridSearch treats a failed
\* semantic search as it treats a failed topic search, and goes on to
\* SearchTopics with no citations
SearchVersesByEmbeddingReturnTolerant(out) ==
    /\ pc = "vector"
    /\ LET cits == IF out.ok THEN Slice(toCitations(out.items)) ELSE Slice(<<>>)
           words == tokenizeWords(req.Query)
       IN  IF op = "semantic" /\ ~ out.ok
           THEN /\ searchFailed
                /\ calls' = answered(calls, out)
                /\ UNCHANGED << citations, topics >>
           ELSE /\ citations' = cits
                /\ IF op = "semantic"
                   THEN /\ resp' = semanticResponse(req.Query, cits)
                        /\ pc' = "done"
                        /\ calls' = answered(calls, out)
                        /\ UNCHANGED topics
                   ELSE IF noKeywords(words)
                   THEN /\ topics' = Slice(<<>>)
                        /\ resp' = hybridResponse(req.Query, Slice(<<>>), cits)
                        /\ pc' = "done"
                        /\ calls' = answered(calls, out)
                   ELSE /\ calls' = Append(answered(calls, out), KeywordCall(words, topicLimit))
                        /\ pc' = "keyword"
                        /\ UNCHANGED << topics, resp >>
    /\ UNCHANGED << op, req, verseLimit, topicLimit, warnings, cardVars, ctx, other, topicRepo, vs, pg >>

\* SearchVersesByEmbedding returns into SearchVerses -> SearchVersesCitations
\* -> the handler. SemanticSearch answers; HybridSearch goes on to
\* SearchTopics, which tokenizes and calls SearchByWords only with words.
SearchVersesByEmbeddingReturn(out) ==
    /\ pc = "vector"
    /\ IF ~ out.ok
       THEN /\ searchFailed
            /\ calls' = answered(calls, out)
            /\ UNCHANGED << citations, topics >>
       ELSE LET cits == Slice(toCitations(out.items))
                words == tokenizeWords(req.Query)
            IN  /\ citations' = cits
                /\ IF op = "semantic"
                   THEN /\ resp' = semanticResponse(req.Query, cits)
                        /\ pc' = "done"
                        /\ calls' = answered(calls, out)
                        /\ UNCHANGED topics
                   ELSE IF noKeywords(words)
                   THEN /\ topics' = Slice(<<>>)
                        /\ resp' = hybridResponse(req.Query, Slice(<<>>), cits)
                        /\ pc' = "done"
                        /\ calls' = answered(calls, out)
                   ELSE /\ calls' = Append(answered(calls, out), KeywordCall(words, topicLimit))
                        /\ pc' = "keyword"
                        /\ UNCHANGED << topics, resp >>
    /\ UNCHANGED << op, req, verseLimit, topicLimit, warnings, cardVars, ctx, other, topicRepo, vs, pg >>

\* what HybridSearch keeps of SearchTopics' return: on an error it logs a
\* warning and takes the empty list `[]models.ScoredTopic{}`
topicsAfterSearch(out) ==
    IF out.ok THEN Slice(toScoredTopics(out.items)) ELSE Slice(<<>>)

\* mutant of SearchByWordsReturn: a failed keyword search is tried once more
SearchByWordsReturnRetrying(out) ==
    /\ pc = "keyword"
    /\ IF ~ out.ok /\ Len(calls) = 3
       THEN /\ calls' = Append(answered(calls, out), KeywordCall(calls[3].words, topicLimit))
            /\ UNCHANGED << pc, topics, warnings, resp >>
       ELSE /\ topics' = topicsAfterSearch(out)
            /\ warnings' = IF out.ok THEN warnings ELSE Append(warnings, "Topic search failed")
            /\ resp' = hybridResponse(req.Query, topicsAfterSearch(out), citations)
            /\ pc' = "done"
            /\ calls' = answered(calls, out)
    /\ UNCHANGED << op, req, verseLimit, topicLimit, citations, cardVars, ctx, other, topicRepo, vs, pg >>

\* SearchByWords returns into SearchTopics -> HybridSearch, which answers
SearchByWordsReturn(out) ==
    /\ pc = "keyword"
    /\ topics' = topicsAfterSearch(out)
    /\ warnings' = IF out.ok THEN warnings ELSE Append(warnings, "Topic search failed")
    /\ resp' = hybridResponse(req.Query, topicsAfterSearch(out), citations)
    /\ pc' = "done"
    /\ calls' = answered(calls, out)
    /\ UNCHANGED << op, req, verseLimit, topicLimit, citations, cardVars, ctx, other, topicRepo, vs, pg >>

(***************************** GetTopicCard ********************************)
\* source priority for topic cards, most preferred first
preferredSources ==
    << "claude_4.5_opus", "torreys_topical_textbook", "naves_topical_bible" >>

\* mutant of firstOfSource: the score gate of the preferred pass is lost
firstOfSourceUngated(tops, preferredSource, minScore, i) ==
    LET S == { j \in i..Len(tops) : tops[j].Source = preferredSource }
    IN  IF S = {} THEN 0 ELSE CHOOSE j \in S : \A h \in S : j <= h

\* the inner loop `for i := range topics`: the first index at or after i of a
\* topic of preferredSource with Score >= minScore, 0 when the loop ends
RECURSIVE firstOfSource(_, _, _, _)
firstOfSource(tops, preferredSource, minScore, i) ==
    IF i > Len(tops) THEN 0
    ELSE IF tops[i].Source = preferredSource /\ tops[i].Score >= minScore THEN i
    ELSE firstOfSource(tops, preferredSource, minScore, i + 1)

\* mutant of preferredPass: the loops are nested the other way round, so the
\* first qualifying topic of any preferred source wins
preferredPassTopicsFirst(tops, minScore, k) ==
    LET S == { i \in DOMAIN tops :
                 /\ tops[i].Score >= minScore
                 /\ \E j \in k..Len(preferredSources) : tops[i].Source = preferredSources[j] }
    IN  IF S = {} THEN 0 ELSE CHOOSE i \in S : \A h \in S : i <= h

\* the outer loop `for _, preferredSource := range preferredSources`, from
\* the k-th source on: it stops at the first source that selects a topic
RECURSIVE preferredPass(_, _, _)
preferredPass(tops, minScore, k) ==
    IF k > Len(preferredSources) THEN 0
    ELSE LET i == firstOfSource(tops, preferredSources[k], minScore, 1)
         IN  IF i # 0 THEN i ELSE preferredPass(tops, minScore, k + 1)

\* mutant of fallbackTopic: topics[0] is taken whatever its score
fallbackTopicUngated(tops, minScore) == 1

\* mutant of fallbackTopic: the first topic of the list that clears minScore
fallbackTopicAnyPosition(tops, minScore) ==
    LET S == { i \in DOMAIN tops : tops[i].Score >= minScore }
    IN  IF S = {} THEN 0 ELSE CHOOSE i \in S : \A h \in S : i <= h

\* the fallback: topics[0], if its score is high enough
fallbackTopic(tops, minScore) == IF tops[1].Score >= minScore THEN 1 ELSE 0

\* mutant of selectTopic: only the preferred sources are looked at
selectTopicPreferredOnly(tops, minScore) == preferredPass(tops, minScore, 1)

\* selectedTopic of GetTopicCard for a non-empty list (0 is nil)
selectTopic(tops, minScore) ==
    LET i == preferredPass(tops, minScore, 1)
    IN  IF i # 0 THEN i ELSE fallbackTopic(tops, minScore)

\* mutant of TopicCard: the score and the verse count are read from
\* topics[0], the best match, whichever topic was selected
TopicCardWithBestMatchScore(t, verses) ==
    [isNil |-> FALSE, TopicID |-> t.TopicID, Name |-> t.Name,
     Category |-> t.Category, Source |-> t.Source,
     VerseCount |-> cardArgs.topics[1].VerseCount,
     Score |-> cardArgs.topics[1].Score, TopVerses |-> verses]

\* `&models.TopicCard{...}`
TopicCard(t, verses) ==
    [isNil |-> FALSE, TopicID |-> t.TopicID, Name |-> t.Name,
     Category |-> t.Category, Source |-> t.Source, VerseCount |-> t.VerseCount,
     Score |-> t.Score, TopVerses |-> verses]

\* `return card, err` of GetTopicCard
cardReturn(card, err) ==
    /\ cardRet' = [returned |-> TRUE, card |-> card, err |-> err]
    /\ pc' = "done"

\* VectorSearchService.GetTopicCard up to its port call: nothing to select
\* from, nothing selected, or the fetch of the selected topic's verses. The
\* service that has it holds the TopicRepository that has GetTopicVerses,
\* the one over mv_topics_summary that matches on topic, sub_topic and name.
GetTopicCard(tops, minScore, limit) ==
    /\ pc = "idle"
    /\ topicRepo = "mv_topics_summary"
    /\ op' = "card"
    /\ cardArgs' = [topics |-> tops, minScore |-> minScore, verseLimit |-> limit]
    /\ IF Len(tops) = 0
       THEN /\ cardReturn(NilTopicCard, FALSE)
            /\ UNCHANGED << selected, calls >>
       ELSE LET i == selectTopic(tops, minScore)
            IN  /\ selected' = i
                /\ IF i = 0
                   THEN /\ cardReturn(NilTopicCard, FALSE)
                        /\ UNCHANGED calls
                   ELSE /\ calls' = Append(calls, TopicVersesCall(tops[i].TopicID, limit))
                        /\ pc' = "topicVerses"
                        /\ UNCHANGED cardRet
    /\ UNCHANGED << handlerVars, ctx, other, topicRepo, vs, pg >>

\* mutant of fetchFailed: the error is swallowed, no card and no error
fetchFailedGivesNoCardSilently == cardReturn(NilTopicCard, FALSE)

\* `if err != nil { return nil, err }` after GetTopicVerses
fetchFailed == cardReturn(NilTopicCard, TRUE)

\* GetTopicVerses returns into GetTopicCard: an error is returned without a
\* card, the verses make the card
GetTopicVersesReturn(out) ==
    /\ pc = "topicVerses"
    /\ IF out.ok
       THEN cardReturn(TopicCard(cardArgs.topics[selected], Slice(out.items)), FALSE)
       ELSE fetchFailed
    /\ calls' = answered(calls, out)
    /\ UNCHANGED << op, cardArgs, selected, handlerVars, ctx, other, topicRepo, vs, pg >>

(************************** the state machine ******************************)
\* the caller's context is canceled or times out while a port call made with
\* it is in flight
CancelContext ==
    /\ pc \in { "embed", "vector", "keyword", "topicVerses" }
    /\ ~ ctx.done
    /\ ctx' = [done |-> TRUE, callsAtDone |-> Len(calls)]
    /\ UNCHANGED << pc, op, handlerVars, calls, cardVars, other, topicRepo, vs, pg >>

\* s.topicRepo.SearchByWords(ctx, words, topK): the result lists of the
\* implementation the service holds
SearchByWordsResults(words, topK) ==
    IF topicRepo = "mv_topics_summary"
    THEN TopicLists(words, topK)
    ELSE IF topicRepo = "topics"
    THEN TopicListsByName(words, topK)
    ELSE TopicListsOfSummaryName(words, topK)

\* what a port call can return: every port passes ctx down to its HTTP call
\* or its query (NewRequestWithContext, QueryxContext, SelectContext). A
\* call made with a ctx that is already done fails; a call that was in
\* flight when ctx ended fails, or returns its result when the end came
\* after the library last looked at ctx
PortOutcomes(results) ==
    IF ctx.done /\ Len(calls) > ctx.callsAtDone THEN { PortError }
    ELSE { PortError } \cup { PortResult(s) : s \in results }

\* the operation is over: everything it held is request-scoped and dropped
Finish ==
    /\ pc = "done"
    /\ pc' = "idle"
    /\ op' = "none"
    /\ req' = NoRequest
    /\ verseLimit' = 0
    /\ topicLimit' = 0
    /\ citations' = NilSlice
    /\ topics' = NilSlice
    /\ calls' = <<>>
    /\ warnings' = <<>>
    /\ resp' = NoResponse
    /\ cardArgs' = NoCardArgs
    /\ selected' = 0
    /\ cardRet' = NoCardRet
    /\ ctx' = LiveContext
    /\ UNCHANGED << other, topicRepo, vs, pg >>

\* an operation starts only when none runs; a port answers only while its
\* call is in flight
Next ==
    \/ pc = "idle" /\ \E r \in SemanticRequests : SemanticSearch(r)
    \/ pc = "idle" /\ \E r \in HybridRequests : HybridSearch(r)
    \/ pc = "embed" /\ \E out \in PortOutcomes({ <<>> }) : EmbedQueryReturn(out)
    \/ pc = "vector" /\
          \E out \in PortOutcomes(VerseLists(verseLimit)) :
             SearchVersesByEmbeddingReturn(out)
    \/ pc = "keyword" /\
          \E out \in PortOutcomes(SearchByWordsResults(calls[Len(calls)].words, topicLimit)) :
             SearchByWordsReturn(out)
    \/ pc = "idle" /\ topicRepo = "mv_topics_summary" /\
          \E tops \in CardTopicLists, m \in MinScores, l \in CardVerseLimits :
             GetTopicCard(tops, m, l)
    \/ pc = "topicVerses" /\
          \E out \in PortOutcomes(TopicVerseLists(calls[Len(calls)].topicID, cardArgs.verseLimit)) :
             GetTopicVersesReturn(out)
    \/ CancelContext
    \/ Finish

Spec == Init /\ [][Next]_vars

(************************** concurrent requests ****************************)
\* the locals of the request the running goroutine serves
frame ==
    [pc |-> pc, op |-> op, req |-> req, verseLimit |-> verseLimit,
     topicLimit |-> topicLimit, citations |-> citations, topics |-> topics,
     calls |-> calls, warnings |-> warnings, resp |-> resp, cardArgs |-> cardArgs,
     selected |-> selected, cardRet |-> cardRet, ctx |-> ctx]

\* mutant of citationsOnResume: citations is kept on the handler, which all
\* requests share, instead of in a local of HybridSearch
citationsOnResumeShared == citations

\* `citations, err := ...`: a local, so a goroutine that resumes finds its own
citationsOnResume == other.citations

\* the scheduler takes the running goroutine off (it is blocked in a port
\* call, or serves no request) and runs the other one; a handler that has
\* answered returns first
Switch ==
    /\ pc # "done"
    /\ other' = frame
    /\ pc' = other.pc
    /\ op' = other.op
    /\ req' = other.req
    /\ verseLimit' = other.verseLimit
    /\ topicLimit' = other.topicLimit
    /\ citations' = citationsOnResume
    /\ topics' = other.topics
    /\ calls' = other.calls
    /\ warnings' = other.warnings
    /\ resp' = other.resp
    /\ cardArgs' = other.cardArgs
    /\ selected' = other.selected
    /\ cardRet' = other.cardRet
    /\ ctx' = other.ctx
    /\ UNCHANGED << topicRepo, vs, pg >>

\* the requests of the concurrent runs
ConcurrentQueries == { QueryTrinity, QueryPossessive, QueryStopWords }

ConcurrentLimits == { 1, 10 }

ConcurrentSemanticRequests ==
    { [wellFormed |-> TRUE, Query |-> q, Limit |-> l, VerseLimit |-> 0, TopicLimit |-> 0] :
        q \in ConcurrentQueries, l \in ConcurrentLimits }

ConcurrentHybridRequests ==
    { [wellFormed |-> TRUE, Query |-> q, Limit |-> 0, VerseLimit |-> vl, TopicLimit |-> 0] :
        q \in ConcurrentQueries, vl \in ConcurrentLimits }

\* two goroutines serve requests, interleaved in any way
NextConcurrent ==
    \/ pc = "idle" /\ \E r \in ConcurrentSemanticRequests : SemanticSearch(r)
    \/ pc = "idle" /\ \E r \in ConcurrentHybridRequests : HybridSearch(r)
    \/ pc = "embed" /\ \E out \in PortOutcomes({ <<>> }) : EmbedQueryReturn(out)
    \/ pc = "vector" /\
          \E out \in PortOutcomes(VerseLists(verseLimit)) :
             SearchVersesByEmbeddingReturn(out)
    \/ pc = "keyword" /\
          \E out \in PortOutcomes(SearchByWordsResults(calls[Len(calls)].words, topicLimit)) :
             SearchByWordsReturn(out)
    \/ Switch
    \/ Finish

SpecConcurrent == Init /\ [][NextConcurrent]_vars

(********************** the vector repositories ****************************)
\* the topK a SearchVersesByEmbedding call is followed with
VectorTopKs == { 1, 2, 5 }

\* the calls followed on their own: a backend, what its store or index holds
\* for the query vector, and topK
VectorSearchCalls ==
    { [NoVectorSearch EXCEPT !.backend = "pgvector", !.topK = k, !.embedded = E,
                             !.wait = "QueryxContext"] :
        k \in VectorTopKs, E \in EmbeddedVerses }
    \cup UNION { { [NoVectorSearch EXCEPT !.backend = "vertex", !.topK = k, !.neighbors = n,
                                         !.wait = "FindNeighbors"] :
                    n \in NeighborLists } : k \in VectorTopKs }

InitVectorSearch ==
    /\ InitServer
    /\ vs \in VectorSearchCalls
    /\ pg = PostgresReady

\* what a call leaves: `return nil, fmt.Errorf(...)` or `return results, nil`
vectorSearchReturn(out) ==
    /\ vs' = [vs EXCEPT !.wait = "none", !.returned = TRUE, !.err = ~ out.ok,
                        !.results = IF out.ok THEN Slice(out.items) ELSE NilSlice]
    /\ UNCHANGED << pc, op, handlerVars, calls, cardVars, ctx, other, topicRepo, pg >>

\* postgres.VectorSearchRepository.SearchVersesByEmbedding: the query fails,
\* or its rows are scanned in order (an empty result is `[]ScoredVerse{}`)
pgvectorSearchVersesByEmbedding ==
    /\ vs.backend = "pgvector"
    /\ vs.wait = "QueryxContext"
    /\ \E out \in { PortError } \cup
                 { PortResult(r) : r \in pgvectorResults(vs.embedded, vs.topK) } :
          vectorSearchReturn(out)

\* vertex.VectorSearchRepository.SearchVersesByEmbedding up to the query of
\* lookupVerses: FindNeighbors fails, or finds no neighbor (`[]ScoredVerse{}`
\* is returned), or its neighbors are looked up in the verse store
vertexFindNeighborsReturn ==
    /\ vs.backend = "vertex"
    /\ vs.wait = "FindNeighbors"
    /\ \E ok \in BOOLEAN :
          IF ~ ok THEN vectorSearchReturn(PortError)
          ELSE IF Len(vs.neighbors) = 0 THEN vectorSearchReturn(PortResult(<< >>))
          ELSE /\ vs' = [vs EXCEPT !.wait = "QueryxContext"]
               /\ UNCHANGED << pc, op, handlerVars, calls, cardVars, ctx, other, topicRepo, pg >>

\* the rest of it: the query of lookupVerses fails ("lookup verses: ..."), or
\* the neighbors found in the verse store are returned
vertexLookupVersesReturn ==
    /\ vs.backend = "vertex"
    /\ vs.wait = "QueryxContext"
    /\ \E out \in { PortError,
                   PortResult(lookupVerses(neighborIDs(vs.neighbors),
                                           scoreMap(vs.neighbors))) } :
          vectorSearchReturn(out)

NextVectorSearch ==
    \/ pgvectorSearchVersesByEmbedding
    \/ vertexFindNeighborsReturn
    \/ vertexLookupVersesReturn

SpecVectorSearch == InitVectorSearch /\ [][NextVectorSearch]_vars

(***************************** package db **********************************)
InitPostgresSpec ==
    /\ InitServer
    /\ vs = NoVectorSearch
    /\ \E u \in PostgresURIs : pg = [NoPostgres EXCEPT !.uri = u]

\* how sqlx.ConnectContext (sql.Open, then PingContext) and pgDB.PingContext
\* may end
ConnectOutcomes == { "ok", "failed" }
PingOutcomes == { "ok", "failed" }

\* `return initErr` of the InitPostgres call that ran the function given to
\* pgOnce.Do
initReturn(p, initErr) ==
    [p EXCEPT !.once = TRUE, !.wait = "none",
              !.inits = Append(@, [ctxDone |-> p.ctxDone, err |-> initErr,
                                   enabled |-> p.postgresEnabled])]

\* InitPostgres(ctx) is called while no call is inside pgOnce.Do (a call made
\* meanwhile waits in pgOnce.Do and goes on as a later call). `var initErr
\* error` is a local of the call: a call that finds pgOnce done returns the
\* nil it was declared with. The first call runs the function: it returns
\* "POSTGRES_URI is required", or waits for sqlx.ConnectContext.
InitPostgres(ctxDone) ==
    /\ Len(pg.inits) < MaxInitCalls
    /\ pg.wait = "none"
    /\ pg' = IF pg.once
             THEN [pg EXCEPT !.inits = Append(@, [ctxDone |-> ctxDone, err |-> "nil",
                                                   enabled |-> pg.postgresEnabled])]
             ELSE IF pg.uri = ""
             THEN initReturn([pg EXCEPT !.ctxDone = ctxDone], "POSTGRES_URI is required")
             ELSE [pg EXCEPT !.ctxDone = ctxDone, !.wait = "ConnectContext",
                             !.attempts = @ + 1]
    /\ UNCHANGED << pc, op, handlerVars, calls, cardVars, ctx, other, topicRepo, vs >>

\* sqlx.ConnectContext returns: `pgDB, err = sqlx.ConnectContext(...)` stores
\* the handle it opened whether its ping succeeded or not (the driver is
\* registered, so sql.Open gives a handle), then `if err != nil` returns
\* "failed to connect"; a ctx that is done makes the ping fail. Else the pool
\* is configured and the call waits for pgDB.PingContext.
ConnectContextReturn(connect) ==
    /\ pg.wait = "ConnectContext"
    /\ pg.ctxDone => connect = "failed"
    /\ pg' = IF connect = "ok"
             THEN [pg EXCEPT !.pgDB = "open", !.wait = "PingContext"]
             ELSE initReturn([pg EXCEPT !.pgDB = "open"], "failed to connect to PostgreSQL")
    /\ UNCHANGED << pc, op, handlerVars, calls, cardVars, ctx, other, topicRepo, vs >>

\* pgDB.PingContext returns: an error ("failed to ping"), or `postgresEnabled
\* = true`. Both can follow a ClosePostgres that ran meanwhile: a ping that
\* had not taken its connection fails on the closed handle, one that already
\* held it completes.
PingContextReturn(ping) ==
    /\ pg.wait = "PingContext"
    /\ pg' = IF ping = "ok"
             THEN initReturn([pg EXCEPT !.postgresEnabled = TRUE], "nil")
             ELSE initReturn(pg, "failed to ping PostgreSQL")
    /\ UNCHANGED << pc, op, handlerVars, calls, cardVars, ctx, other, topicRepo, vs >>

\* ClosePostgres: `if pgDB != nil { return pgDB.Close() }`. It holds pgMu,
\* which InitPostgres never takes, so it can run while InitPostgres waits.
ClosePostgres ==
    /\ pg.pgDB # "nil"
    /\ ~ pg.closed
    /\ pg' = [pg EXCEPT !.closed = TRUE]
    /\ UNCHANGED << pc, op, handlerVars, calls, cardVars, ctx, other, topicRepo, vs >>

NextPostgres ==
    \/ \E ctxDone \in BOOLEAN : InitPostgres(ctxDone)
    \/ \E connect \in ConnectOutcomes : ConnectContextReturn(connect)
    \/ \E ping \in PingOutcomes : PingContextReturn(ping)
    \/ ClosePostgres

SpecPostgres == InitPostgresSpec /\ [][NextPostgres]_vars

(******************************* claims ************************************)
\* the indices of the calls made to a port
CallsOf(port) == { i \in DOMAIN calls : calls[i].port = port }

\* the handler answered 200 with a response DTO
Answered(operation) == op = operation /\ pc = "done" /\ resp.status = 200

\* cits are the citations of rows: same length, same order, each carrying
\* the identity, location, text and score of its own row
CitationsOf(cits, rows) ==
    /\ Len(cits) = Len(rows)
    /\ \A i \in DOMAIN rows :
          /\ cits[i].VerseID = rows[i].VerseID
          /\ cits[i].Book = rows[i].Book
          /\ cits[i].Chapter = rows[i].Chapter
          /\ cits[i].Verse = rows[i].Verse
          /\ cits[i].Text = rows[i].Text
          /\ ~ cits[i].RelevanceScore.isNil
          /\ cits[i].RelevanceScore.value = rows[i].Score

\* C1: when the embedding call or the similarity search has returned an
\* error, the request is over with an error answer (500) that carries no
\* response DTO, no citations and no topics were produced, and the keyword
\* search was never called; after an embedding error the similarity search
\* was never called either.
C1_SemanticFailureIsFatal ==
    \A i \in DOMAIN calls :
        (calls[i].port \in { "embed", "vector" } /\ calls[i].result = "error") =>
            /\ pc = "done"
            /\ resp.status = 500
            /\ DOMAIN resp = { "status", "message" }
            /\ citations.isNil
            /\ topics.isNil
            /\ CallsOf("keyword") = {}
            /\ (calls[i].port = "embed" => CallsOf("vector") = {})

C1_Witness ==
    /\ op = "hybrid"
    /\ pc = "done"
    /\ \E i \in DOMAIN calls : calls[i].port = "vector" /\ calls[i].result = "error"

\* C2 (as claimed): when the keyword search of a hybrid request has returned
\* an error, the request is answered 200 with exactly the citations of the
\* similarity search and with a topic list that is present in the body and
\* empty.
C2_KeywordFailureGivesPresentEmptyTopics ==
    \A i \in DOMAIN calls :
        (calls[i].port = "keyword" /\ calls[i].result = "error") =>
            /\ Answered("hybrid")
            /\ resp.json.semantic_matches.verses.present
            /\ \A j \in CallsOf("vector") :
                  CitationsOf(resp.json.semantic_matches.verses.items, calls[j].returned)
            /\ resp.json.resource_matches.topics.present
            /\ ~ resp.json.resource_matches.topics.isNull
            /\ resp.json.resource_matches.topics.items = <<>>

\* C3: a semantic or hybrid request whose query is missing or empty is over
\* with a 400 answer and no port was called for it.
C3_EmptyQueryRejectedBeforeRetrieval ==
    (op \in { "semantic", "hybrid" } /\ req.Query = <<>>) =>
        /\ pc = "done"
        /\ resp.status = 400
        /\ calls = <<>>

C3_Witness ==
    /\ op = "semantic"
    /\ req.wellFormed
    /\ req.Query = <<>>
    /\ resp.status = 400

\* the limit L the documented rule resolves to, for default d
EffectiveLimit(L, d) == IF L \in 1..50 THEN L ELSE d

\* the verse limit the client asked for
RequestedVerseLimit == IF op = "semantic" THEN req.Limit ELSE req.VerseLimit

\* C4: the similarity search is called with the requested verse limit if it
\* is in [1,50] and with 10 otherwise, the keyword search with the requested
\* topic limit if it is in [1,50] and with 5 otherwise, so no port is called
\* with a limit outside [1,50]; and no well-formed request with a query is
\* rejected, whatever its limits.
C4_LimitsResolvedNeverRejected ==
    /\ \A i \in DOMAIN calls :
          /\ calls[i].port = "vector" =>
                calls[i].topK = EffectiveLimit(RequestedVerseLimit, 10)
          /\ calls[i].port = "keyword" =>
                calls[i].topK = EffectiveLimit(req.TopicLimit, 5)
          /\ calls[i].port \in { "vector", "keyword" } => calls[i].topK \in 1..50
    /\ (op \in { "semantic", "hybrid" } /\ req.wellFormed /\ req.Query # <<>>) =>
          resp.status # 400

C4_Witness ==
    /\ Answered("hybrid")
    /\ req.VerseLimit = 1000
    /\ req.TopicLimit = 0
    /\ \E i \in DOMAIN calls : calls[i].port = "vector" /\ calls[i].topK = 10
    /\ \E i \in DOMAIN calls : calls[i].port = "keyword" /\ calls[i].topK = 5

Punctuation == { " ", "!", "?", "'", ",", "." }

AsciiAlnum == Range(LowerLetters) \cup Range(UpperLetters) \cup Digits

\* q is not empty and is made of punctuation and of words that are stop
\* words (in any case): every letter or digit lies in a maximal run of
\* letters and digits that spells a stop word
StopWordsAndPunctuationOnly(q) ==
    /\ q # <<>>
    /\ \A i \in DOMAIN q :
          \/ q[i] \in Punctuation
          \/ /\ q[i] \in AsciiAlnum
             /\ \E a \in 1..i, b \in i..Len(q) :
                   /\ \A j \in a..b : q[j] \in AsciiAlnum
                   /\ a = 1 \/ q[a - 1] \in Punctuation
                   /\ b = Len(q) \/ q[b + 1] \in Punctuation
                   /\ ToLower(SubSeq(q, a, b)) \in stopWords

\* C5: in a hybrid request whose query is made only of stop words and
\* punctuation, the keyword search is never called, the semantic path runs
\* (the embedding call is made), and once the similarity search has answered
\* the request is answered 200 with the citations of that answer and with no
\* topic.
C5_StopWordQuerySkipsKeywordSearch ==
    (op = "hybrid" /\ req.wellFormed /\ StopWordsAndPunctuationOnly(req.Query)) =>
        /\ CallsOf("keyword") = {}
        /\ pc # "keyword"
        /\ CallsOf("embed") # {}
        /\ \A i \in CallsOf("vector") :
              calls[i].result = "ok" =>
                 /\ Answered("hybrid")
                 /\ resp.value.ResourceMatches.Topics = Slice(<<>>)
                 /\ resp.json.resource_matches.topics.items = <<>>
                 /\ CitationsOf(resp.json.semantic_matches.verses.items, calls[i].returned)

C5_Witness ==
    /\ Answered("hybrid")
    /\ req.Query = QueryStopWords
    /\ Len(resp.json.semantic_matches.verses.items) = 2

\* C6 (as claimed): in every 200 answer each result list is present in the
\* body as a list: results of a semantic answer, semantic_matches.verses and
\* resource_matches.topics of a hybrid answer; never null, never left out.
C6_ResultListsAlwaysPresent ==
    /\ Answered("semantic") =>
          resp.json.results.present /\ ~ resp.json.results.isNull
    /\ Answered("hybrid") =>
          /\ resp.json.semantic_matches.verses.present
          /\ ~ resp.json.semantic_matches.verses.isNull
          /\ resp.json.resource_matches.topics.present
          /\ ~ resp.json.resource_matches.topics.isNull

\* the positions of the topics of the k-th preferred source that clear m
QualifyingOfSource(tops, k, m) ==
    { i \in DOMAIN tops : tops[i].Source = preferredSources[k] /\ tops[i].Score >= m }

Least(S) == CHOOSE x \in S : \A y \in S : x <= y

\* GetTopicCard has made its selection
CardSelectionMade == op = "card" /\ pc \in { "topicVerses", "done" }

\* card is built from topic t
CardOfTopic(card, t) ==
    /\ ~ card.isNil
    /\ card.TopicID = t.TopicID
    /\ card.Name = t.Name
    /\ card.Category = t.Category
    /\ card.Source = t.Source
    /\ card.VerseCount = t.VerseCount
    /\ card.Score = t.Score

\* C7: when some topic of a preferred source clears minScore, GetTopicCard
\* selects the first topic, in input order, of the earliest preferred source
\* that has a topic clearing minScore, whatever the scores and positions of
\* the qualifying topics of later sources; the card it returns is that topic.
C7_SelectionIsPreferenceOrdered ==
    CardSelectionMade =>
        LET tops == cardArgs.topics
            m == cardArgs.minScore
            ks == { k \in DOMAIN preferredSources : QualifyingOfSource(tops, k, m) # {} }
        IN  ks # {} =>
               /\ selected = Least(QualifyingOfSource(tops, Least(ks), m))
               /\ (cardRet.returned /\ ~ cardRet.err) =>
                     CardOfTopic(cardRet.card, tops[selected])

C7_Witness ==
    /\ op = "card"
    /\ cardRet.returned
    /\ ~ cardRet.card.isNil
    /\ Len(cardArgs.topics) = 3
    /\ cardArgs.minScore = 90
    /\ cardArgs.topics[1].Source = "naves_topical_bible"
    /\ cardArgs.topics[1].Score = 100
    /\ cardArgs.topics[2].Source = "claude_4.5_opus"
    /\ cardArgs.topics[2].Score = 70
    /\ cardArgs.topics[3].Source = "claude_4.5_opus"
    /\ cardArgs.topics[3].Score = 90
    /\ cardRet.card.Source = "claude_4.5_opus"
    /\ cardRet.card.Score = 90

\* C8: when the topic list is empty or none of its topics clears minScore,
\* GetTopicCard has returned no card and no error, and the fetch of topic
\* verses was never called.
C8_NoQualifyingTopicNoCard ==
    (op = "card" /\ \A i \in DOMAIN cardArgs.topics :
                        cardArgs.topics[i].Score < cardArgs.minScore) =>
        /\ pc = "done"
        /\ cardRet.returned
        /\ cardRet.card.isNil
        /\ ~ cardRet.err
        /\ calls = <<>>

C8_Witness ==
    /\ op = "card"
    /\ cardRet.returned
    /\ Len(cardArgs.topics) >= 2
    /\ \A i \in DOMAIN cardArgs.topics : cardArgs.topics[i].Score < cardArgs.minScore
    /\ \E i \in DOMAIN cardArgs.topics : cardArgs.topics[i].Source = preferredSources[1]

\* C9 (as claimed): a hybrid answer whose topics contain a topic of the most
\* preferred source with score 1.0 carries a topic card, and the card is
\* that topic.
C9_HybridAnswerFeaturesPreferredTopic ==
    Answered("hybrid") =>
        \A i \in DOMAIN resp.value.ResourceMatches.Topics.items :
            LET t == resp.value.ResourceMatches.Topics.items[i]
            IN  (t.Source = preferredSources[1] /\ t.Score = 100) =>
                   /\ resp.json.topic_card.present
                   /\ CardOfTopic(resp.json.topic_card.value, t)

\* C10: a hybrid answer carries a topic card only if its topic list is not
\* empty, and a card exists only behind the gate: whenever GetTopicCard
\* returns a card, the card is a topic of its input with score >= minScore
\* (so some topic of the list cleared the gate).
C10_CardOnlyBehindGate ==
    /\ (Answered("hybrid") /\ resp.json.topic_card.present) =>
          Len(resp.json.resource_matches.topics.items) > 0
    /\ (op = "card" /\ cardRet.returned /\ ~ cardRet.card.isNil) =>
          \E i \in DOMAIN cardArgs.topics :
             /\ cardArgs.topics[i].Score >= cardArgs.minScore
             /\ CardOfTopic(cardRet.card, cardArgs.topics[i])

C10_Witness ==
    /\ op = "card"
    /\ cardRet.returned
    /\ ~ cardRet.card.isNil
    /\ cardArgs.topics[1].Score < cardArgs.minScore
    /\ cardRet.card.Source = "torreys_topical_textbook"

\* C11: when GetTopicCard has selected a topic and the fetch of its verses
\* has returned an error, GetTopicCard has returned that error and no card;
\* and every card it returns carries the verse list of a fetch that
\* succeeded, for the selected topic.
C11_FetchFailureIsPropagated ==
    /\ \A i \in CallsOf("topicVerses") :
          calls[i].result = "error" =>
             /\ pc = "done"
             /\ selected # 0
             /\ cardRet.returned
             /\ cardRet.err
             /\ cardRet.card.isNil
    /\ (op = "card" /\ cardRet.returned /\ ~ cardRet.card.isNil) =>
          /\ ~ cardRet.err
          /\ \E i \in CallsOf("topicVerses") :
                /\ calls[i].result = "ok"
                /\ calls[i].topicID = cardArgs.topics[selected].TopicID
                /\ cardRet.card.TopVerses = Slice(calls[i].returned)

C11_Witness ==
    /\ op = "card"
    /\ cardRet.returned
    /\ cardRet.err
    /\ selected = 2
    /\ \E i \in CallsOf("topicVerses") : calls[i].result = "error"

\* C12 (as claimed): once the context of a hybrid request has ended while a
\* retrieval call was in flight, the request gets no 200 answer and no port
\* call is made beyond those made when the context ended.
C12_CancellationFailsTheRequest ==
    (op = "hybrid" /\ ctx.done) =>
        /\ resp.status # 200
        /\ Len(calls) = ctx.callsAtDone

\* C13: within one semantic or hybrid request the embedding call, the
\* similarity search and the keyword search are each made at most once,
\* whether they succeed or fail, and in that order.
C13_NoRetries ==
    op \in { "semantic", "hybrid" } =>
        /\ \A p \in { "embed", "vector", "keyword" } : Cardinality(CallsOf(p)) <= 1
        /\ Len(calls) <= 3
        /\ \A i \in DOMAIN calls : calls[i].port = << "embed", "vector", "keyword" >>[i]

C13_Witness ==
    /\ op = "hybrid"
    /\ pc = "done"
    /\ Len(calls) = 3
    /\ calls[3].port = "keyword"
    /\ calls[3].result = "error"
    /\ ~ ctx.done

\* C14: a hybrid request is answered 200 only when no port call of it is in
\* flight, its similarity search has succeeded, and its keyword search has
\* succeeded, or has failed and been logged, or was not made because the
\* query has no keyword; and while a port call is in flight nothing has been
\* answered.
C14_ResponseAfterBothPaths ==
    /\ (op = "hybrid" /\ resp.status = 200) =>
          /\ pc = "done"
          /\ \A i \in DOMAIN calls : calls[i].result # "pending"
          /\ \E i \in CallsOf("vector") : calls[i].result = "ok"
          /\ IF tokenizeWords(req.Query) = <<>>
             THEN CallsOf("keyword") = {}
             ELSE \E i \in CallsOf("keyword") :
                     \/ calls[i].result = "ok"
                     \/ calls[i].result = "error" /\ warnings # <<>>
    /\ (\E i \in DOMAIN calls : calls[i].result = "pending") => resp = NoResponse

C14_Witness ==
    /\ Answered("hybrid")
    /\ \E i \in CallsOf("keyword") : calls[i].result = "ok" /\ Len(calls[i].returned) >= 2
    /\ Len(resp.value.ResourceMatches.Topics.items) >= 2
    /\ Len(resp.value.SemanticMatches.Verses.items) >= 1

\* what the request of frame f is answered, from its own query and from
\* what the ports returned to its own calls
OwnAnswer(f) ==
    IF ~ f.req.wellFormed THEN [status |-> 400, message |-> "Invalid request body"]
    ELSE IF f.req.Query = <<>> THEN [status |-> 400, message |-> "Query is required"]
    ELSE IF \E i \in DOMAIN f.calls : f.calls[i].result = "error" /\ i <= 2
    THEN [status |-> 500, message |-> "Search failed"]
    ELSE IF f.op = "semantic"
    THEN semanticResponse(f.req.Query, Slice(toCitations(f.calls[2].returned)))
    ELSE hybridResponse(f.req.Query,
                        IF Len(f.calls) = 3 /\ f.calls[3].result = "ok"
                        THEN Slice(toScoredTopics(f.calls[3].returned))
                        ELSE Slice(<<>>),
                        Slice(toCitations(f.calls[2].returned)))

\* the arguments of the port calls of frame f come from its own request
OwnCalls(f) ==
    \A i \in DOMAIN f.calls :
        /\ f.calls[i].port = "vector" =>
              f.calls[i].topK =
                 EffectiveLimit(IF f.op = "semantic" THEN f.req.Limit ELSE f.req.VerseLimit, 10)
        /\ f.calls[i].port = "keyword" =>
              /\ f.calls[i].topK = EffectiveLimit(f.req.TopicLimit, 5)
              /\ f.calls[i].words = tokenizeWords(f.req.Query)

\* C15: with two requests served at once, interleaved in any way, each
\* request's port calls carry its own query and limits, the citations it
\* holds are those of its own similarity search, and its answer is the one
\* its own request and its own port results determine.
C15_RequestsShareNoState ==
    \A f \in { frame, other } :
        f.op \in { "semantic", "hybrid" } =>
            /\ OwnCalls(f)
            /\ f.pc = "keyword" => f.citations = Slice(toCitations(f.calls[2].returned))
            /\ f.pc = "done" => f.resp = OwnAnswer(f)
            /\ f.pc \notin { "done", "idle" } => f.resp = NoResponse

C15_Witness ==
    /\ Answered("hybrid")
    /\ Len(calls) = 3
    /\ calls[3].result = "ok"
    /\ other.op = "hybrid"
    /\ other.pc = "keyword"
    /\ other.req.Query # req.Query
    /\ other.citations.items # <<>>
    /\ citations.items # <<>>
    /\ other.citations # citations

\* the pieces of s: its maximal runs of ASCII letters and digits, from left
\* to right
Pieces(s) ==
    LET starts == { a \in DOMAIN s :
                      s[a] \in AsciiAlnum /\ (a = 1 \/ s[a - 1] \notin AsciiAlnum) }
        start(k) == CHOOSE a \in starts : Cardinality({ x \in starts : x < a }) = k - 1
        end(a) == CHOOSE b \in a..Len(s) :
                     /\ \A j \in a..b : s[j] \in AsciiAlnum
                     /\ b = Len(s) \/ s[b + 1] \notin AsciiAlnum
    IN  [k \in 1..Cardinality(starts) |-> SubSeq(s, start(k), end(start(k)))]

IsToken(piece) == Len(piece) >= 2 /\ piece \notin stopWords

\* the documented tokenization of q
Tokens(q) == SelectSeq(Pieces(ToLower(q)), IsToken)

\* the similarity search of the hybrid request has succeeded, so SearchTopics
\* has tokenized the query
Tokenized ==
    /\ op = "hybrid"
    /\ \E i \in CallsOf("vector") : calls[i].result = "ok"

\* C16: the words SearchTopics gets from tokenizeWords are the pieces of the
\* lower-cased query between characters that are not ASCII letters or
\* digits, without the pieces shorter than 2 and the stop words, in their
\* order in the query: these are the words the keyword search is called
\* with, and it is not called when there is none.
C16_TokenizerFollowsAlgorithm ==
    Tokenized =>
        IF Tokens(req.Query) = <<>>
        THEN CallsOf("keyword") = {}
        ELSE /\ CallsOf("keyword") # {}
             /\ \A i \in CallsOf("keyword") : calls[i].words = Tokens(req.Query)

C16_Witness ==
    /\ Tokenized
    /\ req.Query = QueryPossessive
    /\ \E i \in CallsOf("keyword") :
          calls[i].words = << <<"g", "o", "d">>, <<"l", "o", "v", "e">> >>

\* the archaic function words the stop-word list is documented to hold
ArchaicWords == { <<"u", "n", "t", "o">>, <<"t", "h", "e", "e">> }

\* C17 (as claimed): neither "unto" nor "thee" is ever among the words the
\* tokenizer gives to the keyword search, and for the query "unto thee" the
\* tokenizer gives no word, so the keyword search is not called.
C17_ArchaicWordsAreStopWords ==
    /\ \A i \in CallsOf("keyword") :
          \A k \in DOMAIN calls[i].words : calls[i].words[k] \notin ArchaicWords
    /\ (Tokenized /\ req.Query = QueryArchaic) => CallsOf("keyword") = {}

\* C18 (as claimed): no word occurs twice among the words the tokenizer
\* gives to the keyword search.
C18_TokensAreDistinct ==
    \A i \in CallsOf("keyword") : IsInjective(calls[i].words)

\* the row of the index a returned topic comes from
RowOf(result) == CHOOSE r \in TopicIndex : r.topic_id = result.Topic.TopicID

\* the documented tiers (hundredths) that apply to a row for one keyword
TiersThatApply(row, keyword) ==
    LET label == ToLower(row.topic)
        secondary == ToLower(row.sub_topic)
        display == ToLower(row.name)
    IN  { 0 }
        \cup (IF label = keyword THEN { 100 } ELSE {})
        \cup (IF HasPrefix(label, keyword) THEN { 95 } ELSE {})
        \cup (IF secondary = keyword THEN { 90 } ELSE {})
        \cup (IF Contains(label, keyword) \/ Contains(secondary, keyword)
              THEN { 85 } ELSE {})
        \cup (IF Contains(display, keyword) THEN { 70 } ELSE {})

KeywordScore(row, keyword) == MaxOf(TiersThatApply(row, keyword))

\* C19: a topic returned by a keyword search of the topical index
\* (mv_topics_summary, the search with the tiers) for one keyword carries the
\* highest of the tiers that apply to it: 1.0 exact label, 0.95 label prefix,
\* 0.9 exact secondary label, 0.85 substring of a label field, 0.7 substring
\* of the display name; and every returned topic has a score above 0.
C19_ScoreIsHighestApplicableTier ==
    \A i \in CallsOf("keyword") :
        (/\ topicRepo = "mv_topics_summary"
         /\ calls[i].result = "ok"
         /\ Len(calls[i].words) = 1) =>
            \A k \in DOMAIN calls[i].returned :
                /\ calls[i].returned[k].Score =
                      KeywordScore(RowOf(calls[i].returned[k]), calls[i].words[1])
                /\ calls[i].returned[k].Score \in { 70, 85, 90, 95, 100 }

C19_Witness ==
    /\ topicRepo = "mv_topics_summary"
    /\ req.Query = QueryPartial
    /\ \E i \in CallsOf("keyword") :
          /\ calls[i].result = "ok"
          /\ Len(calls[i].returned) = 3
          /\ calls[i].returned[1].Score = 95
          /\ calls[i].returned[3].Score = 85

\* C20 (as claimed): a topic returned by a keyword search for several
\* keywords carries the highest of its per-keyword scores over all the
\* keywords of the call, so a topic whose label one keyword matches exactly
\* scores 1.0 wherever that keyword stands.
C20_ScoreIsMaxOverAllKeywords ==
    \A i \in CallsOf("keyword") :
        (calls[i].result = "ok" /\ Len(calls[i].words) >= 2) =>
            \A k \in DOMAIN calls[i].returned :
                LET row == RowOf(calls[i].returned[k])
                IN  /\ calls[i].returned[k].Score =
                          MaxOf({ KeywordScore(row, calls[i].words[j]) :
                                    j \in DOMAIN calls[i].words })
                    /\ (\E j \in DOMAIN calls[i].words :
                           ToLower(row.topic) = calls[i].words[j]) =>
                          calls[i].returned[k].Score = 100

\* a row qualifies for keywords: some keyword is a case-insensitive substring
\* of its primary label, secondary label or display name, and it has verses
Qualifies(row, keywords) ==
    /\ row.verse_count > 0
    /\ \E j \in DOMAIN keywords :
          \/ Contains(ToLower(row.topic), ToLower(keywords[j]))
          \/ Contains(ToLower(row.sub_topic), ToLower(keywords[j]))
          \/ Contains(ToLower(row.name), ToLower(keywords[j]))

\* the match score of a row for keywords
MatchScore(row, keywords) ==
    MaxOf({ KeywordScore(row, keywords[j]) : j \in DOMAIN keywords })

\* (score a, verse count a) comes strictly before (score b, verse count b)
StrictlyBefore(sa, va, sb, vb) == sa > sb \/ (sa = sb /\ va > vb)

\* C21: a successful keyword search of the topical index (mv_topics_summary)
\* with limit k returns the first k qualifying topics by score descending,
\* then verse count descending: min(k, number of qualifying topics) distinct
\* qualifying topics, none ranked after a later one, no qualifying topic left
\* out that ranks before a returned one; each has verse_count >= 1 and a
\* score > 0.
C21_FirstKQualifyingTopics ==
    \A i \in CallsOf("keyword") :
        (topicRepo = "mv_topics_summary" /\ calls[i].result = "ok") =>
            LET out == calls[i].returned
                keywords == calls[i].words
                Q == { r \in TopicIndex : Qualifies(r, keywords) }
                ids == { out[k].Topic.TopicID : k \in DOMAIN out }
            IN  /\ Len(out) = Min(calls[i].topK, Cardinality(Q))
                /\ Cardinality(ids) = Len(out)
                /\ ids \subseteq { r.topic_id : r \in Q }
                /\ \A k \in DOMAIN out :
                      /\ out[k].VerseCount = RowOf(out[k]).verse_count
                      /\ out[k].VerseCount >= 1
                      /\ out[k].Score > 0
                /\ \A k, h \in DOMAIN out :
                      k < h => ~ StrictlyBefore(out[h].Score, out[h].VerseCount,
                                               out[k].Score, out[k].VerseCount)
                /\ \A r \in Q :
                      r.topic_id \notin ids =>
                         \A k \in DOMAIN out :
                            ~ StrictlyBefore(MatchScore(r, keywords), r.verse_count,
                                             out[k].Score, out[k].VerseCount)

C21_Witness ==
    /\ topicRepo = "mv_topics_summary"
    /\ \E i \in CallsOf("keyword") :
          /\ calls[i].result = "ok"
          /\ calls[i].topK = 1
          /\ calls[i].words = << QueryTrinity >>
          /\ Len(calls[i].returned) = 1
          /\ calls[i].returned[1].Topic.TopicID = "303"

\* the citations of a 200 answer
AnsweredCitations ==
    IF op = "semantic"
    THEN resp.json.results.items
    ELSE resp.json.semantic_matches.verses.items

\* C22: the citations of a semantic or hybrid 200 answer are, position by
\* position, the verses the similarity search returned to this request: as
\* many, in the same order, each with the id, book, chapter, verse, text and
\* score of the verse at its position.
C22_OneCitationPerPassageInOrder ==
    (Answered("semantic") \/ Answered("hybrid")) =>
        /\ Cardinality(CallsOf("vector")) = 1
        /\ \A i \in CallsOf("vector") :
              /\ calls[i].result = "ok"
              /\ Len(AnsweredCitations) = Len(calls[i].returned)
              /\ \A k \in DOMAIN calls[i].returned :
                    /\ AnsweredCitations[k].VerseID = calls[i].returned[k].VerseID
                    /\ AnsweredCitations[k].Book = calls[i].returned[k].Book
                    /\ AnsweredCitations[k].Chapter = calls[i].returned[k].Chapter
                    /\ AnsweredCitations[k].Verse = calls[i].returned[k].Verse
                    /\ AnsweredCitations[k].Text = calls[i].returned[k].Text
                    /\ ~ AnsweredCitations[k].RelevanceScore.isNil
                    /\ AnsweredCitations[k].RelevanceScore.value = calls[i].returned[k].Score

\* two verses with different scores, the later verse of the store first: the
\* order of the port is kept and each citation has its own score
C22_Witness ==
    /\ Answered("semantic")
    /\ Len(resp.json.results.items) = 2
    /\ resp.json.results.items[1].VerseID = "John.3.16"
    /\ resp.json.results.items[1].RelevanceScore.value = 91
    /\ resp.json.results.items[2].VerseID = "Gen.1.1"
    /\ resp.json.results.items[2].RelevanceScore.value = 78

\* no topic of a preferred source clears minScore
NoPreferredQualifies(tops, m) ==
    \A k \in DOMAIN preferredSources : QualifyingOfSource(tops, k, m) = {}

\* C23: when the list is not empty and no topic of a preferred source clears
\* minScore, GetTopicCard selects topics[0] if its score is >= minScore and
\* nothing otherwise, whatever the scores of the later topics; with nothing
\* selected it returns no card.
C23_FallbackIsFirstTopicOnly ==
    (/\ CardSelectionMade
     /\ cardArgs.topics # <<>>
     /\ NoPreferredQualifies(cardArgs.topics, cardArgs.minScore)) =>
        /\ selected = IF cardArgs.topics[1].Score >= cardArgs.minScore THEN 1 ELSE 0
        /\ (selected = 0 /\ cardRet.returned) => cardRet.card.isNil /\ ~ cardRet.err
        /\ selected = 0 => calls = <<>>

C23_Witness ==
    /\ op = "card"
    /\ cardRet.returned
    /\ cardRet.card.isNil
    /\ cardArgs.minScore = 90
    /\ Len(cardArgs.topics) = 2
    /\ cardArgs.topics[1].Score = 70
    /\ cardArgs.topics[2].Score = 100
    /\ cardArgs.topics[2].Source \notin Range(preferredSources)

\* the mapped verses of a topic
VersesOf(topicID) == { r \in TopicVerseRows : r.topic_id = topicID }

\* the mapped verse a citation of a card shows
VerseRowOf(topicID, citation) ==
    CHOOSE r \in VersesOf(topicID) : r.verse_id = citation.VerseID

\* C24: the verse list of a card GetTopicCard returns is a list (never null)
\* of min(verseLimit, number of mapped verses) distinct verses mapped to the
\* selected topic, in ascending order of (importance tier, book order,
\* chapter, verse), with no mapped verse left out that comes before a listed
\* one; each is a citation of its verse without a relevance score.
C24_CardVersesOfSelectedTopicInOrder ==
    (op = "card" /\ cardRet.returned /\ ~ cardRet.card.isNil) =>
        LET id == cardArgs.topics[selected].TopicID
            top == cardRet.card.TopVerses
            ids == { top.items[k].VerseID : k \in DOMAIN top.items }
        IN  /\ ~ top.isNil
            /\ Len(top.items) = Min(cardArgs.verseLimit, Cardinality(VersesOf(id)))
            /\ Cardinality(ids) = Len(top.items)
            /\ ids \subseteq { r.verse_id : r \in VersesOf(id) }
            /\ \A k \in DOMAIN top.items :
                  /\ top.items[k].RelevanceScore.isNil
                  /\ top.items[k].Book = VerseRowOf(id, top.items[k]).book
                  /\ top.items[k].Chapter = VerseRowOf(id, top.items[k]).chapter
                  /\ top.items[k].Verse = VerseRowOf(id, top.items[k]).verse
                  /\ top.items[k].Text = VerseRowOf(id, top.items[k]).text
            /\ \A k, h \in DOMAIN top.items :
                  k < h =>
                     LET a == VerseRowOf(id, top.items[k])
                         b == VerseRowOf(id, top.items[h])
                     IN  << a.importance_tier, a.book_order, a.chapter, a.verse >> #
                            << b.importance_tier, b.book_order, b.chapter, b.verse >>
                         /\ (a.importance_tier < b.importance_tier
                             \/ (a.importance_tier = b.importance_tier /\
                                   (a.book_order < b.book_order
                                    \/ (a.book_order = b.book_order /\
                                          (a.chapter < b.chapter
                                           \/ (a.chapter = b.chapter /\ a.verse < b.verse))))))
            /\ \A r \in VersesOf(id) :
                  r.verse_id \notin ids =>
                     \A k \in DOMAIN top.items :
                        LET a == VerseRowOf(id, top.items[k])
                        IN  << a.importance_tier, a.book_order, a.chapter, a.verse >> #
                               << r.importance_tier, r.book_order, r.chapter, r.verse >>
                            /\ (a.importance_tier < r.importance_tier
                                \/ (a.importance_tier = r.importance_tier /\
                                      (a.book_order < r.book_order
                                       \/ (a.book_order = r.book_order /\
                                             (a.chapter < r.chapter
                                              \/ (a.chapter = r.chapter /\ a.verse < r.verse))))))

\* the three verses of topic 101: tier 1 in book order, then tier 2 although
\* its book comes first
C24_Witness ==
    /\ op = "card"
    /\ cardRet.returned
    /\ cardRet.card.TopicID = "101"
    /\ cardArgs.verseLimit = 5
    /\ Len(cardRet.card.TopVerses.items) = 3
    /\ cardRet.card.TopVerses.items[1].VerseID = "Matt.28.19"
    /\ cardRet.card.TopVerses.items[2].VerseID = "2Cor.13.14"
    /\ cardRet.card.TopVerses.items[3].VerseID = "Gen.1.26"

\* the positions of the neighbors whose id the verse store knows
KnownNeighbors(neighbors) ==
    { i \in DOMAIN neighbors :
        \E r \in VerseRows : r.VerseID = neighbors[i].DatapointId }

SemanticPathFailed ==
    \E i \in DOMAIN calls :
        calls[i].port \in { "embed", "vector" } /\ calls[i].result = "error"

\* this step makes the keyword call
KeywordCallMade ==
    /\ Len(calls') = Len(calls) + 1
    /\ calls'[Len(calls')].port = "keyword"

\* C26: in a hybrid request the step that makes the keyword call is the step
\* in which the similarity search returns successfully: until then the
\* embedding and the similarity search are the only calls, both have
\* succeeded when the keyword call is made, the citations are those of the
\* similarity search, and the keywords are the tokens of the query; a step
\* taken after the embedding or the similarity search failed makes no call.
C26_KeywordPathFollowsSemanticSuccess ==
    [][ /\ KeywordCallMade =>
              /\ op = "hybrid"
              /\ pc = "vector"
              /\ Len(calls) = 2
              /\ calls[1].port = "embed" /\ calls'[1].result = "ok"
              /\ calls[2].port = "vector" /\ calls[2].result = "pending"
              /\ calls'[2].result = "ok"
              /\ citations' = Slice(toCitations(calls'[2].returned))
              /\ calls'[3].words = tokenizeWords(req.Query)
              /\ calls'[3].result = "pending"
              /\ resp' = NoResponse
        /\ SemanticPathFailed => (calls' = calls \/ calls' = << >>)
        /\ (pc \in { "embed", "vector" } /\ op = "hybrid") => CallsOf("keyword") = {}
      ]_vars

\* the keyword call of a hybrid request is in flight, after a similarity
\* search that returned two verses
C26_Witness ==
    /\ op = "hybrid"
    /\ pc = "keyword"
    /\ Len(calls) = 3
    /\ calls[2].result = "ok"
    /\ Len(calls[2].returned) = 2
    /\ calls[3].result = "pending"
    /\ Len(citations.items) = 2

\* the list is sorted by score, the highest first
SortedByScore(tops) == \A i, j \in DOMAIN tops : i < j => tops[i].Score >= tops[j].Score

\* C27: for a topic list sorted by score, the highest first, GetTopicCard
\* selects a topic if and only if some topic of the list has a score of at
\* least minScore, whatever the sources; and when the fetch of the verses
\* succeeds (or none was needed) it returns a card if and only if some topic
\* has a score of at least minScore.
C27_SortedInputNeverMissesQualifyingTopic ==
    (CardSelectionMade /\ SortedByScore(cardArgs.topics)) =>
        LET qualifies == \E i \in DOMAIN cardArgs.topics :
                            cardArgs.topics[i].Score >= cardArgs.minScore
        IN  /\ selected # 0 <=> qualifies
            /\ (cardRet.returned /\ ~ cardRet.err) =>
                  (~ cardRet.card.isNil <=> qualifies)

\* a sorted list whose only topic above the gate is of no preferred source,
\* followed by a topic of a preferred source below the gate: the fallback
\* makes the card
C27_Witness ==
    /\ op = "card"
    /\ cardRet.returned /\ ~ cardRet.err
    /\ Len(cardArgs.topics) = 2
    /\ SortedByScore(cardArgs.topics)
    /\ cardArgs.topics[1].Source = ""
    /\ cardArgs.topics[1].Score >= cardArgs.minScore
    /\ cardArgs.topics[2].Source = preferredSources[1]
    /\ cardArgs.topics[2].Score < cardArgs.minScore
    /\ ~ cardRet.card.isNil
    /\ cardRet.card.Source = ""

\* C28: whenever GetTopicCard returns a card it returns no error, and the
\* card's topic_id, name, category, source, verse_count and score are all
\* those of one element of the input list, the selected one, whose score is
\* at least minScore.
C28_CardIsOneQualifyingInputTopic ==
    (op = "card" /\ cardRet.returned /\ ~ cardRet.card.isNil) =>
        /\ ~ cardRet.err
        /\ selected \in DOMAIN cardArgs.topics
        /\ cardArgs.topics[selected].Score >= cardArgs.minScore
        /\ cardRet.card.TopicID = cardArgs.topics[selected].TopicID
        /\ cardRet.card.Name = cardArgs.topics[selected].Name
        /\ cardRet.card.Category = cardArgs.topics[selected].Category
        /\ cardRet.card.Source = cardArgs.topics[selected].Source
        /\ cardRet.card.VerseCount = cardArgs.topics[selected].VerseCount
        /\ cardRet.card.Score = cardArgs.topics[selected].Score

\* the card is made of the third topic, which differs from the first in its
\* id, its score and its verse count
C28_Witness ==
    /\ op = "card"
    /\ cardRet.returned
    /\ ~ cardRet.card.isNil
    /\ selected = 3
    /\ cardArgs.topics[1].TopicID # cardArgs.topics[3].TopicID
    /\ cardArgs.topics[1].Score > cardArgs.topics[3].Score
    /\ cardArgs.topics[1].VerseCount # cardArgs.topics[3].VerseCount
    /\ cardRet.card.TopicID = cardArgs.topics[3].TopicID

\* w is made of the characters a-z and 0-9 only and has at least 2 of them
PlainKeyword(w) ==
    /\ Len(w) >= 2
    /\ \A j \in DOMAIN w : w[j] \in Range(LowerLetters) \cup Digits

\* C29: every word tokenizeWords gives for the query of a request is made of
\* the characters a-z and 0-9 only and has at least 2 characters (so it has
\* no upper-case letter, no white space, no % and no _), and every call of
\* the keyword search has at least one word, its words being those.
C29_KeywordsArePlainAndNonEmpty ==
    /\ (op \in { "semantic", "hybrid" } /\ req.wellFormed) =>
          LET words == tokenizeWords(req.Query)
          IN  \A k \in DOMAIN words : PlainKeyword(words[k])
    /\ \A i \in CallsOf("keyword") :
          /\ Len(calls[i].words) >= 1
          /\ \A k \in DOMAIN calls[i].words :
                /\ PlainKeyword(calls[i].words[k])
                /\ \A j \in DOMAIN calls[i].words[k] :
                      calls[i].words[k][j] \notin
                          Range(UpperLetters) \cup { " ", "%", "_", KelvinSign }

\* the keyword search is called for "Go%d_Lo" with the words go and lo
C29_Witness ==
    /\ op = "hybrid"
    /\ req.Query = QueryWildcards
    /\ \E i \in CallsOf("keyword") :
          calls[i].words = << <<"g", "o">>, <<"l", "o">> >>

\* C30 (as claimed): whatever InitPostgres calls are made, the connection is
\* attempted at most once, a call returns nil only with PostgresEnabled()
\* true at its return, and a call that follows a call that returned an error
\* returns an error too.
C30_InitPostgresKeepsReportingFailure ==
    /\ pg.attempts <= 1
    /\ \A i \in DOMAIN pg.inits : pg.inits[i].err = "nil" => pg.inits[i].enabled
    /\ \A i, j \in DOMAIN pg.inits :
          (i < j /\ pg.inits[i].err # "nil") => pg.inits[j].err # "nil"
====
